---- MODULE Spec2Model ----
(***************************************************************************)
(* Verification model of bioslogtriage: the deterministic analysis         *)
(* pipeline (phase detection, rule engine with fingerprint dedup,          *)
(* evidence-pack budgeting, repair of model-returned JSON).                *)
(*                                                                         *)
(* Each stage is a pure function of its inputs; every stage has its own    *)
(* specification (SpecPhases, SpecRules, SpecPack, SpecRepair) whose Init  *)
(* draws the inputs from bounded sets and whose actions are the steps of   *)
(* the stage's code.  The variables of the other stages stay idle.         *)
(***************************************************************************)
EXTENDS Integers, Sequences, FiniteSets, TLC

VARIABLES
    \* ---- detect_phases (phases.py) ----
    plines,        \* input: list of NormalizedLine texts (idx = position)
    ppos,          \* number of lines already scanned by the for loop
    phase_hits,    \* dict phase -> {start_line,strong,matches}, insertion order
    spans,         \* returned list of PhaseSpan
    ppc,           \* "idle" | "scan" | "done"
    \* ---- run_rules (rules/engine.py) ----
    rlines,        \* input: list of normalized line texts
    rphases,       \* input: phase spans of the single segment
    rules,         \* input: list of compiled Rule
    ropts,         \* input: context_lines and include_evidence_lines
    rline,         \* current line (1-based position of the outer loop)
    rrule,         \* current rule (1-based position of the inner loop)
    deduped_events,\* list of events built so far
    stable_index,  \* dict stable_key -> index into deduped_events
    match_log,     \* history: one entry per successful regex match
    rpc,           \* "idle" | "run" | "done"
    \* ---- build_evidence_pack (llm/evidence_pack.py) ----
    output,        \* input: the tool output (events, schema_version)
    top_k,         \* input
    max_chars,     \* input
    selected_events,
    trimming_applied,
    final_chars,
    meta,          \* evidence_pack_meta, or NoMeta before it is attached
    loop_idx,      \* index variable of the two for loops (0-based)
    compacted,     \* history: the meta block was replaced by the placeholder
    kpc,           \* "idle" | position in build_evidence_pack
    \* ---- repair / validate (llm/repair.py, llm/repair_facts.py, cli.py) ----
    candidate,     \* input: JSON payload returned by the model
    kind,          \* "synthesis" | "facts"
    best_event_id, \* input of repair_llm_synthesis
    has_jsonschema,\* whether `import jsonschema` succeeds
    repaired,      \* result of the repair function
    qpc,           \* "idle" | "start" | "repaired"
    \* ---- main (cli.py) ----
    args,          \* input: parsed command line
    log_events,    \* input: the events run_rules finds in the log
    llm_replies,   \* input: what the model calls of this run return
    main_output,   \* the output dict, or NoOutput before it is built
    det_output,    \* history: the output dict as built at lines 541-548
    stages,        \* history: the pipeline stages run so far
    calls,         \* history: the model calls issued so far
    llm_ok,
    prompt_len,
    candidate_keys,
    pending_exc,   \* exception travelling to the except clause, or NoExc
    exit_code,     \* "none" | 0 | 2 | "uncaught"
    mpc,           \* "idle" | position in main
    \* ---- detect_stalls (signals/stalls.py) ----
    markers,       \* input: progress markers, in any order
    phase_spans,   \* input: the `phases` argument
    gap_lines,     \* input
    stalls,        \* result
    spc,           \* "idle" | "start" | "done"
    \* ---- _select_boot_blocking_event_id (cli.py) ----
    sel_events,    \* input: the `events` argument
    blocking_id,   \* result: an event id, or "None"
    bpc,           \* "idle" | "start" | "done"
    \* ---- apply_output_mode (output.py) ----
    shape_in,      \* the `output` argument, as the call leaves it
    shape_arg,     \* history: the `output` argument as passed
    out_mode,      \* input: the `mode` argument
    shaped,        \* result: first component of the returned pair
    opc,           \* "idle" | "start" | "done"
    \* ---- enrich_events (signals/enrich_events.py) ----
    en_events,     \* the `events` argument, enriched in place
    en_markers,    \* input: the `markers` argument
    en_blocking,   \* input: boot_blocking_event_id, or "None"
    en_idx,        \* position of the for loop over events
    epc            \* "idle" | "run" | "done"

phaseVars  == <<plines, ppos, phase_hits, spans, ppc>>
rulesVars  == <<rlines, rphases, rules, ropts, rline, rrule, deduped_events,
                stable_index, match_log, rpc>>
packVars   == <<output, top_k, max_chars, selected_events, trimming_applied,
                final_chars, meta, loop_idx, compacted, kpc>>
repairVars == <<candidate, kind, best_event_id, has_jsonschema, repaired, qpc>>
mainVars   == <<args, log_events, llm_replies, main_output, det_output, stages,
                calls, llm_ok, prompt_len, candidate_keys, pending_exc,
                exit_code, mpc>>
stallVars  == <<markers, phase_spans, gap_lines, stalls, spc>>
selectVars == <<sel_events, blocking_id, bpc>>
shapeVars  == <<shape_in, shape_arg, out_mode, shaped, opc>>
enrichVars == <<en_events, en_markers, en_blocking, en_idx, epc>>
laterVars  == <<mainVars, stallVars, selectVars, shapeVars, enrichVars>>
vars       == <<phaseVars, rulesVars, packVars, repairVars, laterVars>>

-----------------------------------------------------------------------------
(* Generic helpers                                                         *)

Min(a, b) == IF a <= b THEN a ELSE b
Max(a, b) == IF a >= b THEN a ELSE b

RECURSIVE SumSeq(_)
SumSeq(s) == IF s = <<>> THEN 0 ELSE Head(s) + SumSeq(Tail(s))

\* Python slice s[:n]
Take(s, n) == SubSeq(s, 1, Min(Len(s), Max(n, 0)))

\* Python s[:-1] after list.pop()
Pop(s) == SubSeq(s, 1, Len(s) - 1)

Range(s) == {s[i] : i \in DOMAIN s}

\* All sequences over S of length lo..hi
SeqsOf(S, lo, hi) == UNION {[1..n -> S] : n \in lo..hi}

-----------------------------------------------------------------------------
(* Idle values of the stages that a specification does not exercise        *)

NoMeta == [present |-> FALSE]
NoJson == [null |-> TRUE]

IdlePhases ==
    /\ plines = <<>> /\ ppos = 0 /\ phase_hits = <<>> /\ spans = <<>>
    /\ ppc = "idle"

IdleRules ==
    /\ rlines = <<>> /\ rphases = <<>> /\ rules = <<>>
    /\ ropts = [context_lines |-> 0, include_evidence_lines |-> FALSE]
    /\ rline = 1
    /\ rrule = 1 /\ deduped_events = <<>> /\ stable_index = <<>>
    /\ match_log = <<>> /\ rpc = "idle"

IdlePack ==
    /\ output = [schema_version |-> "0.1.0", events |-> <<>>]
    /\ top_k = 0 /\ max_chars = 1 /\ selected_events = <<>>
    /\ trimming_applied = <<>> /\ final_chars = 0 /\ meta = NoMeta
    /\ loop_idx = 0 /\ compacted = FALSE /\ kpc = "idle"

IdleRepair ==
    /\ candidate = NoJson /\ kind = "synthesis" /\ best_event_id = <<"evt-0">>
    /\ has_jsonschema = TRUE /\ repaired = NoJson /\ qpc = "idle"

NoOutput == [built |-> FALSE]
NoExc == [exc |-> "None"]

IdleMain ==
    /\ args = <<>> /\ log_events = <<>> /\ llm_replies = <<>>
    /\ main_output = NoOutput /\ det_output = NoOutput
    /\ stages = <<>> /\ calls = <<>> /\ llm_ok = FALSE /\ prompt_len = 0
    /\ candidate_keys = {} /\ pending_exc = NoExc /\ exit_code = "none"
    /\ mpc = "idle"

IdleStalls ==
    /\ markers = <<>> /\ phase_spans = <<>> /\ gap_lines = 5000
    /\ stalls = <<>> /\ spc = "idle"

IdleSelect == sel_events = <<>> /\ blocking_id = "None" /\ bpc = "idle"

IdleShape ==
    /\ shape_in = NoOutput /\ shape_arg = NoOutput /\ out_mode = "slim"
    /\ shaped = NoOutput /\ opc = "idle"

IdleEnrich ==
    /\ en_events = <<>> /\ en_markers = <<>> /\ en_blocking = "None"
    /\ en_idx = 1 /\ epc = "idle"

IdleLater == IdleMain /\ IdleStalls /\ IdleSelect /\ IdleShape /\ IdleEnrich

-----------------------------------------------------------------------------
(* phases.py: detect_phases                                                *)

\* Bounds of the phase-detection inputs
MaxPhaseLines == 4

\* _MARKERS: per phase the list of (regex, is_strong).  A line text is
\* modelled by the set of marker regexes that `search` finds in it.
_MARKERS ==
    [SEC |-> << [re |-> "SecCore",   is_strong |-> TRUE],
                [re |-> "SEC..Entry", is_strong |-> FALSE],
                [re |-> "Entry..SEC", is_strong |-> FALSE] >>,
     PEI |-> << [re |-> "PeiCore",   is_strong |-> TRUE],
                [re |-> "PEI",       is_strong |-> FALSE] >>,
     DXE |-> << [re |-> "DxeCore",   is_strong |-> TRUE],
                [re |-> "DXE",       is_strong |-> FALSE] >>,
     BDS |-> << [re |-> "BdsDxe",    is_strong |-> TRUE],
                [re |-> "Boot Device Selection", is_strong |-> FALSE],
                [re |-> "BDS",       is_strong |-> FALSE] >>]

_PHASE_ORDER == <<"SEC", "PEI", "DXE", "BDS">>

\* Line texts used as inputs, each given by the marker regexes it matches
PhaseTexts ==
    { {},                              \* "Loading driver"
      {"SecCore"},                     \* "SecCore entry"  (no \bSEC\b word)
      {"PEI"},                         \* "PEI init"
      {"PeiCore", "PEI"},              \* "PeiCore: PEI dispatch"
      {"SEC..Entry", "PEI"},           \* "SEC Entry handoff to PEI"
      {"DXE"},                         \* "DXE start"
      {"BdsDxe", "BDS", "DXE"} }       \* "BdsDxe: BDS after DXE"

\* marker_re.search(text)
MarkerSearch(marker_re, text) == marker_re \in text

\* _line_hits_phase(text, phase) -> (matched, has_strong_match, total_matches)
_line_hits_phase(text, phase) ==
    LET ms  == _MARKERS[phase]
        hit == {i \in DOMAIN ms : MarkerSearch(ms[i].re, text)}
    IN  [matched |-> hit # {},
         strong  |-> \E i \in hit : ms[i].is_strong,
         matches |-> Cardinality(hit)]

\* Positions in _PHASE_ORDER whose phase matches the text
MatchingPhasePositions(text) ==
    {k \in DOMAIN _PHASE_ORDER : _line_hits_phase(text, _PHASE_ORDER[k]).matched}

\* Variant without the `break` of line 98: every matching phase is updated.
PhasesUpdatedByLineNoBreak(text) ==
    LET ks == MatchingPhasePositions(text)
    IN  [i \in 1..Cardinality(ks) |->
            _PHASE_ORDER[CHOOSE k \in ks :
                            Cardinality({j \in ks : j < k}) = i - 1]]

\* The phases the inner loop updates for one line: the loop breaks after the
\* first phase of _PHASE_ORDER that matched.
PhasesUpdatedByLine(text) ==
    LET ks == MatchingPhasePositions(text)
    IN  IF ks = {} THEN <<>>
        ELSE << _PHASE_ORDER[CHOOSE k \in ks : \A j \in ks : k <= j] >>

HitIndex(hits, phase) ==
    IF \E i \in DOMAIN hits : hits[i].phase = phase
    THEN CHOOSE i \in DOMAIN hits : hits[i].phase = phase
    ELSE 0

\* Body of `for phase in _PHASE_ORDER` for one matched phase (lines 89-97)
RecordHit(hits, phase, idx, text) ==
    LET h == _line_hits_phase(text, phase)
        i == HitIndex(hits, phase)
    IN  IF i = 0
        THEN Append(hits, [phase |-> phase, start_line |-> idx,
                           strong |-> h.strong, matches |-> h.matches])
        ELSE [hits EXCEPT ![i].strong  = @ \/ h.strong,
                          ![i].matches = @ + h.matches]

RECURSIVE RecordHits(_, _, _, _)
RecordHits(hits, phs, idx, text) ==
    IF phs = <<>> THEN hits
    ELSE RecordHits(RecordHit(hits, Head(phs), idx, text), Tail(phs), idx, text)

\* sorted(phase_hits.items(), key=start_line): stable insertion sort
RECURSIVE InsertByStart(_, _)
InsertByStart(sorted, h) ==
    IF sorted = <<>> THEN <<h>>
    ELSE IF h.start_line < Head(sorted).start_line
         THEN <<h>> \o sorted
         ELSE <<Head(sorted)>> \o InsertByStart(Tail(sorted), h)

RECURSIVE SortedByStart(_)
SortedByStart(hits) ==
    IF hits = <<>> THEN <<>>
    ELSE InsertByStart(SortedByStart(Pop(hits)), hits[Len(hits)])

\* confidence in hundredths: min(base + max(0, matches-1)*0.03, 0.99)
SpanConfidence(strong, matches) ==
    Min((IF strong THEN 95 ELSE 80) + Max(0, matches - 1) * 3, 99)

\* end_line of the span at position pos (lines 112-115)
SpanEndLine(ordered, pos, max_line) ==
    IF pos + 1 <= Len(ordered) THEN ordered[pos + 1].start_line - 1 ELSE max_line

\* lines 100-129
BuildSpansOf(hits, lines) ==
    IF hits = <<>> THEN <<>>
    ELSE LET ordered  == SortedByStart(hits)
             max_line == IF lines # <<>> THEN Len(lines) ELSE 0
         IN  [pos \in 1..Len(ordered) |->
                [phase      |-> ordered[pos].phase,
                 start_line |-> ordered[pos].start_line,
                 end_line   |-> SpanEndLine(ordered, pos, max_line),
                 confidence |-> SpanConfidence(ordered[pos].strong,
                                               ordered[pos].matches)]]

InitPhases ==
    /\ plines \in SeqsOf(PhaseTexts, 0, MaxPhaseLines)
    /\ ppos = 0 /\ phase_hits = <<>> /\ spans = <<>> /\ ppc = "scan"
    /\ IdleRules /\ IdlePack /\ IdleRepair /\ IdleLater

\* One iteration of `for line in lines` (lines 83-98)
ScanLine ==
    /\ ppc = "scan" /\ ppos < Len(plines)
    /\ ppos' = ppos + 1
    /\ phase_hits' = RecordHits(phase_hits, PhasesUpdatedByLine(plines[ppos + 1]),
                                ppos + 1, plines[ppos + 1])
    /\ UNCHANGED <<plines, spans, ppc>>
    /\ UNCHANGED <<rulesVars, packVars, repairVars, laterVars>>

\* Lines 100-129: the early return and the span construction
BuildSpans ==
    /\ ppc = "scan" /\ ppos = Len(plines)
    /\ spans' = BuildSpansOf(phase_hits, plines)
    /\ ppc' = "done"
    /\ UNCHANGED <<plines, ppos, phase_hits>>
    /\ UNCHANGED <<rulesVars, packVars, repairVars, laterVars>>

NextPhases == ScanLine \/ BuildSpans

SpecPhases == InitPhases /\ [][NextPhases]_vars

\* C3: phase ordering invariant of detect_phases: the returned spans have
\* strictly increasing start_line, contain each phase at most once, are
\* contiguous (span[i].end_line + 1 = span[i+1].start_line), the last span
\* ends at the index of the file's last line, and without any phase marker
\* in the input the result is the empty list.
PhaseOrderingInvariant ==
    ppc = "done" =>
        /\ \A i \in 1..(Len(spans) - 1) :
              /\ spans[i].start_line < spans[i + 1].start_line
              /\ spans[i].end_line + 1 = spans[i + 1].start_line
        /\ \A i, j \in DOMAIN spans : spans[i].phase = spans[j].phase => i = j
        /\ spans # <<>> => spans[Len(spans)].end_line = Len(plines)
        /\ (\A i \in DOMAIN plines : plines[i] = {}) => spans = <<>>

\* Witness of C3: a finished detection with three spans, one of them started
\* by a line that also matches a marker of a later phase.
PhaseOrderingWitness ==
    /\ ppc = "done" /\ Len(spans) = 3
    /\ \E i \in DOMAIN plines : Cardinality(MatchingPhasePositions(plines[i])) > 1

-----------------------------------------------------------------------------
(* rules/engine.py: run_rules, fingerprint.py: stable_event_fingerprint    *)
(*                                                                         *)
(* A string is a sequence of tokens; the token "|" is the character that   *)
(* the fingerprint uses as its field separator.                            *)

\* Bounds of the rule-engine inputs
MaxRuleLines == 3
MaxRules == 2

\* Normalized line texts used as inputs
RuleTexts == { <<"x">>, <<"y">>, <<"|">>, <<"|", "|">> }

\* Compiled rules used as inputs.  base_confidence is in thousandths.
\* pattern names the regex:
\*   "x"     : x                        (no named group)
\*   "whole" : ^(?P<module>.*)$         (the whole text)
\*   "tail"  : (?P<module>[^|]*)$       (the text after the last "|")
\*   "mrc"   : (?P<mc>y)(?P<ch>)(?P<dimm>)(?P<spd>)
RuleSet ==
    { [id |-> "r1", category |-> <<"fault">>, subcategory |-> "None",
       severity |-> <<"fatal">>, base_confidence |-> 900, pattern |-> "x",
       required_phase |-> "None", extracts |-> <<>>],
      [id |-> "r2", category |-> <<"fault">>, subcategory |-> "None",
       severity |-> <<"fatal">>, base_confidence |-> 800, pattern |-> "x",
       required_phase |-> "None", extracts |-> <<>>],
      [id |-> "r3", category |-> <<"fault">>, subcategory |-> "None",
       severity |-> <<"high">>, base_confidence |-> 500, pattern |-> "whole",
       required_phase |-> "None", extracts |-> <<>>],
      [id |-> "r4", category |-> <<"fault">>, subcategory |-> "None",
       severity |-> <<"high">>, base_confidence |-> 500, pattern |-> "tail",
       required_phase |-> "None", extracts |-> <<>>],
      [id |-> "r5", category |-> <<"fault">>, subcategory |-> "None",
       severity |-> <<"high">>, base_confidence |-> 970, pattern |-> "x",
       required_phase |-> "DXE", extracts |-> <<>>],
      [id |-> "r6", category |-> <<"assert">>, subcategory |-> "None",
       severity |-> <<"medium">>, base_confidence |-> 600, pattern |-> "whole",
       required_phase |-> "None",
       extracts |-> [file |-> <<"module">>, line |-> <<"7">>]],
      [id |-> "r7", category |-> <<"memory.mrc">>, subcategory |-> "training_fail",
       severity |-> <<"high">>, base_confidence |-> 554, pattern |-> "mrc",
       required_phase |-> "DXE", extracts |-> <<>>],
      [id |-> "r8", category |-> <<"memory.mrc">>, subcategory |-> "spd_addr_zero",
       severity |-> <<"high">>, base_confidence |-> 554, pattern |-> "mrc",
       required_phase |-> "None", extracts |-> <<>>] }

\* Phase spans of the single segment, as detect_phases can return them
PhaseInputs(n) ==
    {<<>>} \cup { <<[phase |-> "DXE", start_line |-> s, end_line |-> n]>> :
                    s \in 1..n }

RunOptions ==
    { [context_lines |-> 1, include_evidence_lines |-> TRUE],
      [context_lines |-> 0, include_evidence_lines |-> FALSE] }

\* The text after the last "|" of a text
RECURSIVE LastSegment(_)
LastSegment(text) ==
    IF text = <<>> THEN <<>>
    ELSE IF text[Len(text)] = "|" THEN <<>>
    ELSE Append(LastSegment(Pop(text)), text[Len(text)])

\* rule.pattern.search(line.text) is not None
PatternSearch(pattern, text) ==
    CASE pattern = "x"     -> \E i \in DOMAIN text : text[i] = "x"
      [] pattern = "whole" -> TRUE
      [] pattern = "tail"  -> TRUE
      [] pattern = "mrc"   -> \E i \in DOMAIN text : text[i] = "y"

\* match.groupdict() restricted to the groups that are not None
PatternGroups(pattern, text) ==
    CASE pattern = "x"     -> <<>>
      [] pattern = "whole" -> [module |-> text]
      [] pattern = "tail"  -> [module |-> LastSegment(text)]
      [] pattern = "mrc"   -> [mc |-> <<"y">>, ch |-> <<>>, dimm |-> <<>>,
                               spd |-> <<>>]

\* Lines 134-145: declared extract specs.  A value naming a captured group
\* is an alias; any other value here is a brace-free template, which
\* str.format returns unchanged.
ApplyExtracts(groups, extracts) ==
    [k \in (DOMAIN groups) \cup (DOMAIN extracts) |->
        IF k \in DOMAIN groups THEN groups[k]
        ELSE IF Len(extracts[k]) = 1 /\ extracts[k][1] \in DOMAIN groups
             THEN groups[extracts[k][1]]
             ELSE extracts[k]]

\* Lines 147-153: memory.mrc derivation
MrcDerive(rule, extracted) ==
    IF /\ rule.category = <<"memory.mrc">>
       /\ rule.subcategory = "spd_addr_zero"
       /\ {"mc", "ch", "dimm", "spd"} \subseteq DOMAIN extracted
    THEN [k \in (DOMAIN extracted) \cup {"spd_addr", "slot"} |->
            CASE k = "spd_addr" -> <<"0x">> \o extracted["spd"]
              [] k = "slot" -> <<"MC">> \o extracted["mc"] \o <<"_C">>
                               \o extracted["ch"] \o <<"_D">> \o extracted["dimm"]
              [] OTHER -> extracted[k]]
    ELSE extracted

\* Lines 133-162: the extracted map of a match.  No modelled rule captures a
\* "bdf" group, so the bdf_norm step (lines 155-162) adds nothing here.
Extracted(rule, text) ==
    MrcDerive(rule, ApplyExtracts(PatternGroups(rule.pattern, text), rule.extracts))

\* extracted.get(key, "")
GetOrEmpty(extracted, key) ==
    IF key \in DOMAIN extracted THEN extracted[key] ELSE <<>>

\* "|".join(parts)
RECURSIVE JoinPipe(_)
JoinPipe(parts) ==
    IF parts = <<>> THEN <<>>
    ELSE IF Len(parts) = 1 THEN parts[1]
    ELSE parts[1] \o <<"|">> \o JoinPipe(Tail(parts))

\* fingerprint.py lines 16-24: the canonical string that is hashed
Canonical(category, severity, hit_text, extracted) ==
    JoinPipe(<< category, severity, hit_text,
                GetOrEmpty(extracted, "module"),
                GetOrEmpty(extracted, "file"),
                GetOrEmpty(extracted, "line") >>)

\* hashlib.sha256(...).hexdigest(): modelled as collision free, the digest
\* of a string is represented by the string itself
Sha256(canonical) == canonical

\* fingerprint.py lines 29-43
DedupeGroup(category, extracted, stable_key) ==
    LET hash_prefix == [prefix12_of |-> stable_key]
        truthy(k)   == k \in DOMAIN extracted /\ extracted[k] # <<>>
    IN  IF "assert" \in Range(category)
        THEN IF truthy("module") /\ truthy("file") /\ truthy("line")
             THEN <<"assert", extracted["module"], extracted["file"],
                    extracted["line"]>>
             ELSE <<"assert", hash_prefix>>
        ELSE IF "watchdog" \in Range(category) THEN <<"watchdog", hash_prefix>>
        ELSE IF "reset" \in Range(category)
             THEN IF truthy("cause") THEN <<"reset", extracted["cause"]>>
                  ELSE <<"reset", hash_prefix>>
        ELSE <<category, hash_prefix>>

stable_event_fingerprint(category, severity, hit_text, extracted) ==
    LET stable_key == Sha256(Canonical(category, severity, hit_text, extracted))
    IN  [stable_key |-> stable_key,
         dedupe_group |-> DedupeGroup(category, extracted, stable_key)]

\* _line_location: phase of a line inside the single segment "seg-1"
LinePhase(line_no, phases) ==
    LET hit == {i \in DOMAIN phases :
                  phases[i].start_line <= line_no /\ line_no <= phases[i].end_line}
    IN  IF hit = {} THEN "None"
        ELSE phases[CHOOSE i \in hit : \A j \in hit : i <= j].phase

\* Line 131: round(confidence, 2) of a confidence in thousandths, in
\* hundredths.  No modelled confidence lies halfway between two hundredths.
Round2(thousandths) == (thousandths + 5) \div 10

\* MatchConfidence without the cap of the boost
MatchConfidenceNoCap(rule, phase) ==
    Round2(IF rule.required_phase # "None" /\ phase = rule.required_phase
           THEN rule.base_confidence + 30
           ELSE rule.base_confidence)

\* Lines 128-131: the confidence of a match, in hundredths
MatchConfidence(rule, phase) ==
    Round2(IF rule.required_phase # "None" /\ phase = rule.required_phase
           THEN Min(rule.base_confidence + 30, 990)
           ELSE rule.base_confidence)

\* _event_evidence
_event_evidence(lines, hit_line, segment_id, context_lines, include_lines) ==
    LET start_line == Max(1, hit_line - context_lines)
        end_line   == Min(Len(lines), hit_line + context_lines)
        base == [ref |-> <<"log", segment_id, start_line, end_line>>,
                 kind |-> "context_window",
                 start_line |-> start_line, end_line |-> end_line]
    IN  << IF include_lines
           THEN base @@ [lines |-> [i \in 1..(end_line - start_line + 1) |->
                                      [idx  |-> start_line + i - 1,
                                       text |-> lines[start_line + i - 1]]]]
           ELSE base >>

\* f"evt-{len(deduped_events)}": an id numbered from 0
NewEventIdFromZero(events) == <<"evt", Len(events)>>

\* f"evt-{len(deduped_events) + 1}"
NewEventId(events) == <<"evt", Len(events) + 1>>

\* Lines 163-168
Where(line_no, phase) ==
    LET base == [segment_id |-> "seg-1",
                 line_range |-> [start |-> line_no, end |-> line_no]]
    IN  IF phase # "None" THEN base @@ [phase |-> phase] ELSE base

\* Lines 193-213
NewEvent(events, rule, line_no, text, phase, lines, opts) ==
    LET extracted  == Extracted(rule, text)
        confidence == MatchConfidence(rule, phase)
    IN  [event_id      |-> NewEventId(events),
         category      |-> rule.category,
         subcategory   |-> rule.subcategory,
         severity      |-> rule.severity,
         confidence    |-> confidence,
         boot_blocking |-> (rule.severity = <<"fatal">>),
         where         |-> Where(line_no, phase),
         extracted     |-> extracted,
         rule_hits     |-> << [rule_id |-> rule.id, weight |-> 1,
                               match_confidence |-> confidence] >>,
         fingerprint   |-> stable_event_fingerprint(rule.category, rule.severity,
                                                    text, extracted),
         occurrences   |-> 1,
         evidence      |-> _event_evidence(lines, line_no, "seg-1",
                                           opts.context_lines,
                                           opts.include_evidence_lines),
         hit_text      |-> text]

\* DedupUpdate with the evidence window of the repeat added to the event
DedupUpdateAddsEvidence(event, line_no) ==
    [event EXCEPT !.occurrences = @ + 1,
                  !.evidence = Append(@, [ref |-> <<"log", "seg-1", line_no, line_no>>,
                                          kind |-> "context_window",
                                          start_line |-> line_no,
                                          end_line |-> line_no]),
                  !.where = IF "other_lines" \in DOMAIN @
                            THEN [@ EXCEPT !.other_lines = Append(@, line_no)]
                            ELSE @ @@ [other_lines |-> <<line_no>>]]

\* Lines 188-190
DedupUpdate(event, line_no) ==
    [event EXCEPT !.occurrences = @ + 1,
                  !.where = IF "other_lines" \in DOMAIN @
                            THEN [@ EXCEPT !.other_lines = Append(@, line_no)]
                            ELSE @ @@ [other_lines |-> <<line_no>>]]

\* The (category, severity, hit text, module, file, line) tuple of a match
MatchTuple(rule, text) ==
    LET extracted == Extracted(rule, text)
    IN  << rule.category, rule.severity, text,
           GetOrEmpty(extracted, "module"), GetOrEmpty(extracted, "file"),
           GetOrEmpty(extracted, "line") >>

EventTuple(event) ==
    << event.category, event.severity, event.hit_text,
       GetOrEmpty(event.extracted, "module"), GetOrEmpty(event.extracted, "file"),
       GetOrEmpty(event.extracted, "line") >>

OtherLines(event) ==
    IF "other_lines" \in DOMAIN event.where THEN event.where.other_lines ELSE <<>>

CurRule  == rules[rrule]
CurText  == rlines[rline]
CurPhase == LinePhase(rline, rphases)
CurKey   == stable_event_fingerprint(CurRule.category, CurRule.severity, CurText,
                                     Extracted(CurRule, CurText)).stable_key
InRuleLoop == rpc = "run" /\ rline <= Len(rlines) /\ rrule <= Len(rules)
PhaseGateOpen ==
    ~(CurRule.required_phase # "None" /\ CurPhase # CurRule.required_phase)

InitRules ==
    /\ rlines \in SeqsOf(RuleTexts, 0, MaxRuleLines)
    /\ rphases \in PhaseInputs(Len(rlines))
    /\ rules \in SeqsOf(RuleSet, 1, MaxRules)
    /\ ropts \in RunOptions
    /\ rline = 1 /\ rrule = 1
    /\ deduped_events = <<>> /\ stable_index = <<>> /\ match_log = <<>>
    /\ rpc = "run"
    /\ IdlePhases /\ IdlePack /\ IdleRepair /\ IdleLater

\* Lines 121-122: the rule requires another phase
RuleSkipPhase ==
    /\ InRuleLoop /\ ~PhaseGateOpen
    /\ rrule' = rrule + 1
    /\ UNCHANGED <<rlines, rphases, rules, ropts, rline, deduped_events,
                   stable_index, match_log, rpc>>
    /\ UNCHANGED <<phaseVars, packVars, repairVars, laterVars>>

\* Lines 124-126: the regex does not match
RuleNoMatch ==
    /\ InRuleLoop /\ PhaseGateOpen
    /\ ~PatternSearch(CurRule.pattern, CurText)
    /\ rrule' = rrule + 1
    /\ UNCHANGED <<rlines, rphases, rules, ropts, rline, deduped_events,
                   stable_index, match_log, rpc>>
    /\ UNCHANGED <<phaseVars, packVars, repairVars, laterVars>>

\* Lines 187-191: a match whose stable key is already indexed
RuleDedup ==
    /\ InRuleLoop /\ PhaseGateOpen
    /\ PatternSearch(CurRule.pattern, CurText)
    /\ CurKey \in DOMAIN stable_index
    /\ deduped_events' =
          [deduped_events EXCEPT ![stable_index[CurKey]] = DedupUpdate(@, rline)]
    /\ match_log' = Append(match_log, [line |-> rline, rule |-> rrule,
                                       tuple |-> MatchTuple(CurRule, CurText)])
    /\ rrule' = rrule + 1
    /\ UNCHANGED <<rlines, rphases, rules, ropts, rline, stable_index, rpc>>
    /\ UNCHANGED <<phaseVars, packVars, repairVars, laterVars>>

\* Lines 193-215: a match with a new stable key
RuleNewEvent ==
    /\ InRuleLoop /\ PhaseGateOpen
    /\ PatternSearch(CurRule.pattern, CurText)
    /\ CurKey \notin DOMAIN stable_index
    /\ deduped_events' =
          Append(deduped_events,
                 NewEvent(deduped_events, CurRule, rline, CurText, CurPhase,
                          rlines, ropts))
    /\ stable_index' = (CurKey :> (Len(deduped_events) + 1)) @@ stable_index
    /\ match_log' = Append(match_log, [line |-> rline, rule |-> rrule,
                                       tuple |-> MatchTuple(CurRule, CurText)])
    /\ rrule' = rrule + 1
    /\ UNCHANGED <<rlines, rphases, rules, ropts, rline, rpc>>
    /\ UNCHANGED <<phaseVars, packVars, repairVars, laterVars>>

\* Line 117: the inner loop is exhausted, take the next line
RuleNextLine ==
    /\ rpc = "run" /\ rline <= Len(rlines) /\ rrule > Len(rules)
    /\ rline' = rline + 1 /\ rrule' = 1
    /\ UNCHANGED <<rlines, rphases, rules, ropts, deduped_events,
                   stable_index, match_log, rpc>>
    /\ UNCHANGED <<phaseVars, packVars, repairVars, laterVars>>

\* Line 217
RuleReturn ==
    /\ rpc = "run" /\ rline > Len(rlines)
    /\ rpc' = "done"
    /\ UNCHANGED <<rlines, rphases, rules, ropts, rline, rrule, deduped_events,
                   stable_index, match_log>>
    /\ UNCHANGED <<phaseVars, packVars, repairVars, laterVars>>

NextRules ==
    \/ RuleSkipPhase \/ RuleNoMatch \/ RuleDedup \/ RuleNewEvent
    \/ RuleNextLine \/ RuleReturn

SpecRules == InitRules /\ [][NextRules]_vars

MatchesWithTuple(t) == {k \in DOMAIN match_log : match_log[k].tuple = t}
EventsWithTuple(t) ==
    {i \in DOMAIN deduped_events : EventTuple(deduped_events[i]) = t}

\* C1: dedup invariant of run_rules: all matches that produce the same
\* (category, severity, hit text, module, file, line) tuple are represented by
\* exactly one returned event, whose occurrences equals the number of those
\* matches and whose where.other_lines contains the line index of every
\* match after the first.
DedupInvariant ==
    rpc = "done" =>
        \A m \in DOMAIN match_log :
            LET same == MatchesWithTuple(match_log[m].tuple)
                evs  == EventsWithTuple(match_log[m].tuple)
            IN  /\ Cardinality(evs) = 1
                /\ \A i \in evs :
                      /\ deduped_events[i].occurrences = Cardinality(same)
                      /\ \A k \in same :
                            (\E j \in same : j < k) =>
                               match_log[k].line
                                 \in Range(OtherLines(deduped_events[i]))

\* C2: event ids are assigned in first-seen order and never reused: the i-th
\* event has id evt-i, all ids are pairwise distinct, and no step (a
\* deduplicated repeat in particular) changes the id of an existing event or
\* removes an event.
EventIdsSequential ==
    /\ [](/\ \A i \in DOMAIN deduped_events :
                deduped_events[i].event_id = <<"evt", i>>
          /\ \A i, j \in DOMAIN deduped_events :
                deduped_events[i].event_id = deduped_events[j].event_id => i = j)
    /\ [][/\ Len(deduped_events') >= Len(deduped_events)
          /\ \A i \in DOMAIN deduped_events :
                deduped_events'[i].event_id = deduped_events[i].event_id]_vars

\* Witness of C2: a finished run with two events, one of which absorbed a
\* deduplicated repeat before the second event was created.
EventIdsWitness ==
    /\ rpc = "done" /\ Len(deduped_events) >= 2
    /\ deduped_events[1].occurrences >= 2
    /\ \E k \in DOMAIN match_log :
          /\ match_log[k].tuple = EventTuple(deduped_events[2])
          /\ \E j \in 1..(k - 1) : \E i \in 1..(j - 1) :
                match_log[i].tuple = match_log[j].tuple

-----------------------------------------------------------------------------
(* llm/evidence_pack.py: build_evidence_pack                               *)

\* Bounds of the evidence-pack inputs
MaxPackEvents == 3
MaxTopK == 3
MaxBudget == 1100
BudgetStep == 29

\* ---- length of json.dumps(payload, separators=(",", ":")) ----

RECURSIVE NatChars(_)
NatChars(n) == IF n < 10 THEN 1 ELSE 1 + NatChars(n \div 10)

IntChars(n) == IF n < 0 THEN 1 + NatChars(-n) ELSE NatChars(n)

StrChars(s) == Len(s) + 2

\* a confidence is kept in hundredths; 0.5 prints as "0.5", 0.55 as "0.55"
ConfChars(c) == IF c % 10 = 0 THEN 3 ELSE 4

BoolChars(b) == IF b THEN 4 ELSE 5

NullChars == 4

\* "key":value
Member(key, value_chars) == Len(key) + 3 + value_chars

\* items separated by commas
Joined(sizes) == SumSeq(sizes) + Max(Len(sizes) - 1, 0)

ObjChars(members) == 2 + Joined(members)

ArrChars(items) == 2 + Joined(items)

LineChars(line) ==
    ObjChars(<< Member("idx", IntChars(line.idx)),
                Member("text", StrChars(line.text)) >>)

EvidenceChars(ev) ==
    ObjChars(<< Member("ref", StrChars(ev.ref)),
                Member("kind", StrChars(ev.kind)),
                Member("start_line", IntChars(ev.start_line)),
                Member("end_line", IntChars(ev.end_line)) >>
             \o (IF "lines" \in DOMAIN ev
                 THEN << Member("lines",
                                ArrChars([i \in DOMAIN ev.lines |->
                                            LineChars(ev.lines[i])])) >>
                 ELSE <<>>))

WhereChars(where) ==
    ObjChars(<< Member("line_range",
                       ObjChars(<< Member("start", IntChars(where.line_range.start)),
                                   Member("end", IntChars(where.line_range.end)) >>)) >>)

EventChars(event) ==
    ObjChars(<< Member("event_id", StrChars(event.event_id)),
                Member("severity", StrChars(event.severity)),
                Member("confidence", ConfChars(event.confidence)),
                Member("boot_blocking", BoolChars(event.boot_blocking)),
                Member("where", WhereChars(event.where)),
                Member("evidence",
                       ArrChars([i \in DOMAIN event.evidence |->
                                   EvidenceChars(event.evidence[i])])) >>)

\* a trimming step name: a fixed text, followed by the event index if any
StepChars(step) ==
    StrChars(step.name) + (IF step.event_index >= 0 THEN IntChars(step.event_index) ELSE 0)

MetaChars(m) ==
    ObjChars(<< Member("top_k_requested", IntChars(m.top_k_requested)),
                Member("events_included", IntChars(m.events_included)),
                Member("max_chars", IntChars(m.max_chars)),
                Member("trimming_applied",
                       ArrChars([i \in DOMAIN m.trimming_applied |->
                                   StepChars(m.trimming_applied[i])])),
                Member("trimming_count", IntChars(m.trimming_count)) >>
             \o (IF "final_chars" \in DOMAIN m
                 THEN << Member("final_chars", IntChars(m.final_chars)) >>
                 ELSE <<>>))

\* _timeline_summary of an output without boot_timeline (lines 42-43)
_timeline_summary(out) ==
    [segments |-> <<>>, boot_blocking_event_id |-> "None"]

TimelineChars(tl) ==
    ObjChars(<< Member("segments", ArrChars(<<>>)),
                Member("boot_blocking_event_id",
                       IF tl.boot_blocking_event_id = "None" THEN NullChars
                       ELSE StrChars(tl.boot_blocking_event_id)) >>)

\* _serialized_size_chars(evidence_pack)
_serialized_size_chars(out, selected, m) ==
    ObjChars(<< Member("schema_version", StrChars(out.schema_version)),
                Member("boot_timeline", TimelineChars(_timeline_summary(out))),
                Member("selected_events",
                       ArrChars([i \in DOMAIN selected |-> EventChars(selected[i])])) >>
             \o (IF m = NoMeta THEN <<>>
                 ELSE << Member("evidence_pack_meta", MetaChars(m)) >>))

\* ---- ranking and selection ----

_SEVERITY_SCORES ==
    [fatal |-> 100, high |-> 60, medium |-> 30, low |-> 10, info |-> 1]

\* round(confidence * 20) for a confidence in hundredths
RoundConfidence20(c) == (2 * c + 5) \div 10

_event_rank_score(event) ==
    LET score == IF "score" \in DOMAIN event THEN event.score
                 ELSE (IF event.severity \in DOMAIN _SEVERITY_SCORES
                       THEN _SEVERITY_SCORES[event.severity] ELSE 0)
                      + RoundConfidence20(event.confidence)
    IN  IF event.boot_blocking THEN score + 1000 ELSE score

\* Ties on the score go to the later start line
RanksBeforeLatestFirst(a, b) ==
    \/ _event_rank_score(a) > _event_rank_score(b)
    \/ /\ _event_rank_score(a) = _event_rank_score(b)
       /\ a.where.line_range.start > b.where.line_range.start

\* sort key (score, -start) with reverse=True: a ranks strictly before b
RanksBefore(a, b) ==
    \/ _event_rank_score(a) > _event_rank_score(b)
    \/ /\ _event_rank_score(a) = _event_rank_score(b)
       /\ a.where.line_range.start < b.where.line_range.start

\* sorted(..., reverse=True) keeps the input order of equal keys
RECURSIVE InsertRanked(_, _)
InsertRanked(sorted, e) ==
    IF sorted = <<>> THEN <<e>>
    ELSE IF RanksBefore(e, Head(sorted))
         THEN <<e>> \o sorted
         ELSE <<Head(sorted)>> \o InsertRanked(Tail(sorted), e)

RECURSIVE rank_events(_)
rank_events(events) ==
    IF events = <<>> THEN <<>>
    ELSE InsertRanked(rank_events(Pop(events)), events[Len(events)])

\* _trimmed_event: allow-listed fields, evidence entries reduced to
\* ref/kind/start_line/end_line and lines when present
_trimmed_event(event) ==
    LET keep == {"event_id", "category", "subcategory", "severity", "confidence",
                 "boot_blocking", "where", "fingerprint", "extracted",
                 "rule_hits", "evidence"} \cap DOMAIN event
        clean(ev) ==
            LET kept == [ref |-> ev.ref, kind |-> ev.kind,
                         start_line |-> ev.start_line, end_line |-> ev.end_line]
            IN  IF "lines" \in DOMAIN ev THEN kept @@ [lines |-> ev.lines] ELSE kept
    IN  [f \in keep |->
            IF f = "evidence"
            THEN [i \in DOMAIN event.evidence |-> clean(event.evidence[i])]
            ELSE event[f]]

\* Line 159 alone: ranked[: max(0, top_k)]
SelectInitialNoFloor(events, k) ==
    LET ranked == rank_events(events)
    IN  [i \in 1..Min(Len(ranked), Max(0, k)) |-> _trimmed_event(ranked[i])]

\* Lines 157-161
SelectInitial(events, k) ==
    LET ranked == rank_events(events)
        sel    == [i \in 1..Min(Len(ranked), Max(0, k)) |-> _trimmed_event(ranked[i])]
    IN  IF events # <<>> /\ sel = <<>> THEN << _trimmed_event(ranked[1]) >> ELSE sel

\* ---- degradations ----

HasLines(event) == \E i \in DOMAIN event.evidence : "lines" \in DOMAIN event.evidence[i]

\* _drop_evidence_lines: the event after the call
_drop_evidence_lines(event) ==
    [event EXCEPT !.evidence =
        [i \in DOMAIN @ |->
            [k \in (DOMAIN @[i]) \ {"lines"} |-> @[i][k]]]]

CanShrink(event) ==
    \E i \in DOMAIN event.evidence :
        "lines" \in DOMAIN event.evidence[i] /\ event.evidence[i].lines # <<>>

\* _shrink_event_lines_to_hit_line: the event after the call
_shrink_event_lines_to_hit_line(event) ==
    LET line_start == event.where.line_range.start
        hit(lines) ==
            LET at == {j \in DOMAIN lines : lines[j].idx = line_start}
            IN  IF at = {} THEN lines[1]
                ELSE lines[CHOOSE j \in at : \A k \in at : j <= k]
    IN  [event EXCEPT !.evidence =
            [i \in DOMAIN @ |->
                IF "lines" \in DOMAIN @[i] /\ @[i].lines # <<>>
                THEN [@[i] EXCEPT !.lines = << hit(@[i].lines) >>]
                ELSE @[i]]]

DroppedEvidenceLines(i) == [name |-> "dropped_evidence_lines:event_index=", event_index |-> i]
ShrunkToHitLine(i)      == [name |-> "shrunk_to_hit_line:event_index=", event_index |-> i]
DroppedLowRankedEvent   == [name |-> "dropped_low_ranked_event", event_index |-> -1]
MetaCompacted           == [name |-> "meta_compacted", event_index |-> -1]

TrimmingCap == 12

\* Lines 193-199
MetaOf(k, selected, budget, applied) ==
    [top_k_requested  |-> k,
     events_included  |-> Len(selected),
     max_chars        |-> budget,
     trimming_applied |-> Take(applied, TrimmingCap),
     trimming_count   |-> Len(applied)]

\* ---- inputs ----

\* Text of the log lines the evidence windows quote
LogText == << "PeiCore start", "ASSERT fail", "reset" >>

WindowLines(a, b) == [i \in 1..(b - a + 1) |-> [idx |-> a + i - 1, text |-> LogText[a + i - 1]]]

\* Event shapes of the input (event_id is given by the position)
PackEventShapes ==
    { [severity |-> "fatal", confidence |-> 90, boot_blocking |-> TRUE,
       where |-> [line_range |-> [start |-> 2, end |-> 2]],
       evidence |-> << [ref |-> "log:seg-1:1-3", kind |-> "context_window",
                        start_line |-> 1, end_line |-> 3,
                        lines |-> WindowLines(1, 3)] >>],
      [severity |-> "high", confidence |-> 50, boot_blocking |-> FALSE,
       where |-> [line_range |-> [start |-> 1, end |-> 1]],
       evidence |-> << [ref |-> "log:seg-1:1-1", kind |-> "context_window",
                        start_line |-> 1, end_line |-> 1,
                        lines |-> WindowLines(1, 1)] >>],
      [severity |-> "high", confidence |-> 50, boot_blocking |-> FALSE,
       where |-> [line_range |-> [start |-> 3, end |-> 3]],
       evidence |-> << [ref |-> "log:seg-1:2-3", kind |-> "context_window",
                        start_line |-> 2, end_line |-> 3] >>],
      [severity |-> "low", confidence |-> 55, boot_blocking |-> FALSE,
       where |-> [line_range |-> [start |-> 2, end |-> 2]],
       evidence |-> << [ref |-> "log:seg-1:1-3", kind |-> "context_window",
                        start_line |-> 1, end_line |-> 3,
                        lines |-> WindowLines(1, 3)] >>],
      [severity |-> "info", confidence |-> 50, boot_blocking |-> FALSE,
       score |-> 70,
       where |-> [line_range |-> [start |-> 3, end |-> 3]],
       evidence |-> << [ref |-> "log:seg-1:3-3", kind |-> "context_window",
                        start_line |-> 3, end_line |-> 3,
                        lines |-> WindowLines(3, 3)] >>] }

EventIdText == << "evt-1", "evt-2", "evt-3", "evt-4", "evt-5", "evt-6" >>

PackEventLists ==
    { [i \in DOMAIN shapes |-> [event_id |-> EventIdText[i]] @@ shapes[i]] :
        shapes \in SeqsOf(PackEventShapes, 0, MaxPackEvents) }

Budgets == {1} \cup {b \in 1..MaxBudget : b % BudgetStep = 0}

InputEvent(id) ==
    output.events[CHOOSE i \in DOMAIN output.events : output.events[i].event_id = id]

\* InputEventsAfterTrim for selected events that are the input events
\* themselves instead of copies
InputEventsAfterTrimShared(events, selected) ==
    [i \in DOMAIN events |->
        IF \E j \in DOMAIN selected : selected[j].event_id = events[i].event_id
        THEN [events[i] EXCEPT !.evidence =
                selected[CHOOSE j \in DOMAIN selected :
                            selected[j].event_id = events[i].event_id].evidence]
        ELSE events[i]]

\* The events of the input after a trimming step has written to the evidence
\* of the selected events.  _trimmed_event builds every selected event from
\* deep copies of the fields (line 91) and from new evidence dicts (lines
\* 97-108), so the selected events share no object with the input and the
\* write reaches none of its events.
InputEventsAfterTrim(events, selected) == events

InitPack ==
    /\ output \in {[schema_version |-> "0.1.0", events |-> evs] : evs \in PackEventLists}
    /\ top_k \in 0..MaxTopK
    /\ max_chars \in Budgets
    /\ selected_events = <<>> /\ trimming_applied = <<>> /\ final_chars = 0
    /\ meta = NoMeta /\ loop_idx = 0 /\ compacted = FALSE /\ kpc = "start"
    /\ IdlePhases /\ IdleRules /\ IdleRepair /\ IdleLater

\* Lines 156-170: rank, select, first measurement
PackSelect ==
    /\ kpc = "start"
    /\ selected_events' = SelectInitial(output.events, top_k)
    /\ final_chars' = _serialized_size_chars(output, selected_events', NoMeta)
    /\ loop_idx' = Len(selected_events') - 1
    /\ kpc' = IF final_chars' > max_chars /\ selected_events' # <<>>
              THEN "drop_lines" ELSE "drop_events"
    /\ UNCHANGED <<output, top_k, max_chars, trimming_applied, meta, compacted>>
    /\ UNCHANGED <<phaseVars, rulesVars, repairVars, laterVars>>

\* Lines 172-178: one iteration of the loop that drops evidence lines,
\* from the lowest-ranked selected event upwards
PackDropLines ==
    /\ kpc = "drop_lines"
    /\ LET i       == loop_idx + 1
           changed == HasLines(selected_events[i])
           sel     == [selected_events EXCEPT ![i] = _drop_evidence_lines(@)]
           size    == _serialized_size_chars(output, sel, NoMeta)
       IN  /\ selected_events' = sel
           /\ trimming_applied' =
                 IF changed THEN Append(trimming_applied, DroppedEvidenceLines(loop_idx))
                 ELSE trimming_applied
           /\ final_chars' = IF changed THEN size ELSE final_chars
           /\ loop_idx' = loop_idx - 1
           /\ kpc' = IF (changed /\ size <= max_chars) \/ loop_idx = 0
                     THEN "drop_events" ELSE "drop_lines"
    /\ output' = [output EXCEPT !.events = InputEventsAfterTrim(@, selected_events')]
    /\ UNCHANGED <<top_k, max_chars, meta, compacted>>
    /\ UNCHANGED <<phaseVars, rulesVars, repairVars, laterVars>>

\* Lines 180-183: one iteration of the loop that drops the lowest-ranked event
PackDropEvent ==
    /\ kpc = "drop_events"
    /\ final_chars > max_chars /\ Len(selected_events) > 1
    /\ selected_events' = Pop(selected_events)
    /\ trimming_applied' = Append(trimming_applied, DroppedLowRankedEvent)
    /\ final_chars' = _serialized_size_chars(output, selected_events', NoMeta)
    /\ UNCHANGED <<output, top_k, max_chars, meta, loop_idx, compacted, kpc>>
    /\ UNCHANGED <<phaseVars, rulesVars, repairVars, laterVars>>

\* Line 185: the drop loop is over; enter the shrink loop or skip it
PackAfterDropEvents ==
    /\ kpc = "drop_events"
    /\ ~(final_chars > max_chars /\ Len(selected_events) > 1)
    /\ loop_idx' = Len(selected_events) - 1
    /\ kpc' = IF final_chars > max_chars /\ selected_events # <<>>
              THEN "shrink" ELSE "meta"
    /\ UNCHANGED <<output, top_k, max_chars, selected_events, trimming_applied,
                   final_chars, meta, compacted>>
    /\ UNCHANGED <<phaseVars, rulesVars, repairVars, laterVars>>

\* Lines 185-191: one iteration of the loop that shrinks evidence to the hit line
PackShrink ==
    /\ kpc = "shrink"
    /\ LET i       == loop_idx + 1
           changed == CanShrink(selected_events[i])
           sel     == [selected_events EXCEPT ![i] = _shrink_event_lines_to_hit_line(@)]
           size    == _serialized_size_chars(output, sel, NoMeta)
       IN  /\ selected_events' = IF changed THEN sel ELSE selected_events
           /\ trimming_applied' =
                 IF changed THEN Append(trimming_applied, ShrunkToHitLine(loop_idx))
                 ELSE trimming_applied
           /\ final_chars' = IF changed THEN size ELSE final_chars
           /\ loop_idx' = loop_idx - 1
           /\ kpc' = IF (changed /\ size <= max_chars) \/ loop_idx = 0
                     THEN "meta" ELSE "shrink"
    /\ output' = [output EXCEPT !.events = InputEventsAfterTrim(@, selected_events')]
    /\ UNCHANGED <<top_k, max_chars, meta, compacted>>
    /\ UNCHANGED <<phaseVars, rulesVars, repairVars, laterVars>>

\* Lines 193-199: attach evidence_pack_meta
PackAttachMeta ==
    /\ kpc = "meta"
    /\ meta' = MetaOf(top_k, selected_events, max_chars, trimming_applied)
    /\ kpc' = "drop_events_meta"
    /\ UNCHANGED <<output, top_k, max_chars, selected_events, trimming_applied,
                   final_chars, loop_idx, compacted>>
    /\ UNCHANGED <<phaseVars, rulesVars, repairVars, laterVars>>

\* Lines 201-206: drop further events while the pack with its meta is too big
PackDropEventWithMeta ==
    /\ kpc = "drop_events_meta"
    /\ _serialized_size_chars(output, selected_events, meta) > max_chars
    /\ Len(selected_events) > 1
    /\ selected_events' = Pop(selected_events)
    /\ trimming_applied' = Append(trimming_applied, DroppedLowRankedEvent)
    /\ meta' = [meta EXCEPT !.events_included = Len(selected_events'),
                            !.trimming_applied = Take(trimming_applied', TrimmingCap),
                            !.trimming_count = Len(trimming_applied')]
    /\ UNCHANGED <<output, top_k, max_chars, final_chars, loop_idx, compacted, kpc>>
    /\ UNCHANGED <<phaseVars, rulesVars, repairVars, laterVars>>

\* Lines 208-213: record final_chars, compact the meta block if still too big
PackFinalize ==
    /\ kpc = "drop_events_meta"
    /\ ~(/\ _serialized_size_chars(output, selected_events, meta) > max_chars
         /\ Len(selected_events) > 1)
    /\ LET measured == _serialized_size_chars(output, selected_events, meta)
           m1       == meta @@ [final_chars |-> measured]
           m2       == [m1 EXCEPT !.trimming_applied = << MetaCompacted >>]
           again    == _serialized_size_chars(output, selected_events, m2)
       IN  IF measured > max_chars
           THEN /\ meta' = [m2 EXCEPT !.final_chars = again]
                /\ compacted' = TRUE
           ELSE /\ meta' = m1
                /\ compacted' = FALSE
    /\ kpc' = "done"
    /\ UNCHANGED <<output, top_k, max_chars, selected_events, trimming_applied,
                   final_chars, loop_idx>>
    /\ UNCHANGED <<phaseVars, rulesVars, repairVars, laterVars>>

NextPack ==
    \/ PackSelect \/ PackDropLines \/ PackDropEvent \/ PackAfterDropEvents
    \/ PackShrink \/ PackAttachMeta \/ PackDropEventWithMeta \/ PackFinalize

SpecPack == InitPack /\ [][NextPack]_vars

\* Size of the pack that build_evidence_pack returns
ReturnedPackChars == _serialized_size_chars(output, selected_events, meta)


\* The first evidence window of the input event quotes the event's hit line
InputHasHitLine(event) ==
    LET w == InputEvent(event.event_id).evidence[1]
    IN  /\ "lines" \in DOMAIN w
        /\ \E j \in DOMAIN w.lines : w.lines[j].idx = event.where.line_range.start

\* The first evidence window of a selected event still quotes the hit line
KeepsHitLine(event) ==
    LET w  == event.evidence[1]
        w0 == InputEvent(event.event_id).evidence[1]
    IN  /\ "lines" \in DOMAIN w
        /\ \E j \in DOMAIN w.lines : \E k \in DOMAIN w0.lines :
              /\ w.lines[j].idx = event.where.line_range.start
              /\ w.lines[j] = w0.lines[k]

\* Every degradation step applied so far, in order
AppliedSteps ==
    trimming_applied \o (IF compacted THEN << MetaCompacted >> ELSE <<>>)

\* The n most recent entries of a list
LastN(s, n) == SubSeq(s, Max(1, Len(s) - n + 1), Len(s))

\* C4: evidence-pack budget invariant: with a non-empty event list the size
\* of the whole returned pack (evidence_pack_meta included) is <= max_chars,
\* or the pack holds exactly one selected event.  (A pack with two selected
\* events is only returned for a budget above every single-event pack, so no
\* minimal floor is involved in a violation.)
BudgetInvariant ==
    (kpc = "done" /\ output.events # <<>>) =>
        \/ ReturnedPackChars <= max_chars
        \/ Len(selected_events) = 1

AnchorLineKept ==
    \A i \in DOMAIN selected_events :
        InputHasHitLine(selected_events[i]) =>
            /\ KeepsHitLine(selected_events[i])
            /\ (\E k \in DOMAIN trimming_applied :
                   trimming_applied[k] = DroppedLowRankedEvent)
               => Len(selected_events[i].evidence[1].lines) = 1

\* C7: every applied degradation step (evidence-line trimming, event drop,
\* meta compaction) is recorded by name, trimming_applied holds the 12 most
\* recent step names, and trimming_count is the number of applied steps.
TrimmingMetadataComplete ==
    kpc = "done" =>
        /\ meta.trimming_applied = LastN(AppliedSteps, TrimmingCap)
        /\ meta.trimming_count = Len(AppliedSteps)

\* C8: final_chars of the returned pack equals the compact serialized
\* character count of that returned pack, on every path.
FinalCharsIsPackSize ==
    kpc = "done" => meta.final_chars = ReturnedPackChars

-----------------------------------------------------------------------------
(* llm/repair.py, llm/repair_facts.py, cli.py: repair and validation of    *)
(* the payloads returned by the model                                      *)

\* Bound of the payload inputs: longest list of facts, actions, hypotheses
\* or missing-evidence items
MaxItems == 1

\* Program constants of the repair functions and of the two schemas
ActionMaxLen == 300
TitleMaxLen == 200
NeedMaxLen == 200
FactMaxLen == 300
SummaryMaxLen == 2000
ReasoningMaxLen == 2000
MaxHypotheses == 5
MaxNextActions == 8
MaxRecommendedActions == 10
MaxMissingEvidence == 10
MaxFacts == 60

\* JSON values are tagged so that values of different Python types are
\* comparable: str is a sequence of characters, a number is kept in
\* hundredths, None is NoJson.
JStr(t) == [s |-> t]
JNum(h) == [n |-> h]
JList(items) == [l |-> items]
JObj(f) == [o |-> f]

IsStr(v) == DOMAIN v = {"s"}
IsNum(v) == DOMAIN v = {"n"}
IsList(v) == DOMAIN v = {"l"}
IsObj(v) == DOMAIN v = {"o"}

\* The function raised (TypeError / ValueError) instead of returning
Raised == [raised |-> TRUE]

\* dict.get(key): None when the key is absent
Get(obj, key) == IF key \in DOMAIN obj.o THEN obj.o[key] ELSE NoJson

\* d[key] = val on a copy of d
Put(f, key, val) ==
    [k \in (DOMAIN f) \cup {key} |-> IF k = key THEN val ELSE f[k]]

\* A missing key is set to null whatever its default is
WithDefaultNull(f, key, val) ==
    IF key \in DOMAIN f THEN f ELSE Put(f, key, NoJson)

\* `if key not in repaired: repaired[key] = val`
WithDefault(f, key, val) == IF key \in DOMAIN f THEN f ELSE Put(f, key, val)

\* str.strip() over the whitespace character " "
RECURSIVE LStrip(_)
LStrip(t) == IF t # <<>> /\ Head(t) = " " THEN LStrip(Tail(t)) ELSE t

RECURSIVE RStrip(_)
RStrip(t) == IF t # <<>> /\ t[Len(t)] = " " THEN RStrip(Pop(t)) ELSE t

Strip(t) == RStrip(LStrip(t))

\* The fixed texts (each stands for its characters; all are within the
\* schema's length limits)
DefaultExpectedSignal == <<"Observe logs/behavior change after action.">>
DefaultWhy == <<"Model returned narrative text; structured fields missing.">>
DefaultHow == <<"Collect targeted logs/telemetry; rerun triage.">>

_action_from_string(text, best) ==
    JObj([action |-> JStr(Take(text, ActionMaxLen)),
          priority |-> JStr(<<"P1">>),
          expected_signal |-> JStr(DefaultExpectedSignal),
          supporting_event_ids |-> JList(<<JStr(best)>>)])

\* `x in {"P0","P1","P2"}` hashes x: a list or a dict raises TypeError
Hashable(v) == ~IsList(v) /\ ~IsObj(v)

ActionPriorities == {JStr(<<"P0">>), JStr(<<"P1">>), JStr(<<"P2">>)}

\* the supporting ids an action is left without: none are defaulted
ActionSupportingEventIdsNoDefault(ids, best) ==
    IF ~IsList(ids) \/ ids.l = <<>>
    THEN <<>>
    ELSE SelectSeq(ids.l, IsStr)

\* supporting_event_ids of a repaired action item
ActionSupportingEventIds(ids, best) ==
    IF ~IsList(ids) \/ ids.l = <<>>
    THEN <<JStr(best)>>
    ELSE LET strings == SelectSeq(ids.l, IsStr)
         IN  IF strings = <<>> THEN <<JStr(best)>> ELSE strings

\* Returns the repaired item, NoJson (None: the item is dropped) or Raised
_repair_action_item(item, best) ==
    IF IsStr(item)
    THEN LET normalized == Strip(item.s)
         IN  IF normalized = <<>> THEN NoJson
             ELSE _action_from_string(normalized, best)
    ELSE IF ~IsObj(item) THEN NoJson
    ELSE LET action == Get(item, "action")
             priority == Get(item, "priority")
             expected_signal == Get(item, "expected_signal")
         IN  IF ~IsStr(action) \/ Strip(action.s) = <<>> THEN NoJson
             ELSE IF ~Hashable(priority) THEN Raised
             ELSE JObj(
               [action |-> JStr(Take(Strip(action.s), ActionMaxLen)),
                priority |-> IF priority \in ActionPriorities
                             THEN priority ELSE JStr(<<"P1">>),
                expected_signal |->
                    IF ~IsStr(expected_signal)
                       \/ Strip(expected_signal.s) = <<>>
                    THEN JStr(Take(Strip(DefaultExpectedSignal),
                                   ActionMaxLen))
                    ELSE JStr(Take(Strip(expected_signal.s), ActionMaxLen)),
                supporting_event_ids |->
                    JList(ActionSupportingEventIds(
                              Get(item, "supporting_event_ids"), best))])

IsKept(r) == r # NoJson

\* The loop `for item in ...: repaired_action = _repair_action_item(...)`
RepairActionList(items, best) ==
    LET rs == [i \in DOMAIN items |-> _repair_action_item(items[i], best)]
    IN  IF \E i \in DOMAIN rs : rs[i] = Raised
        THEN Raised
        ELSE JList(SelectSeq(rs, IsKept))

\* Body of the loop over root_cause_hypotheses
RepairHypothesis(item, best) ==
    IF IsStr(item)
    THEN JObj([title |-> JStr(Take(item.s, TitleMaxLen)),
               confidence |-> JNum(30),
               supporting_event_ids |-> JList(<<JStr(best)>>),
               reasoning |-> item,
               next_actions |-> JList(<<>>)])
    ELSE IF IsObj(item)
    THEN LET next_actions == Get(item, "next_actions")
         IN  IF IsList(next_actions)
             THEN LET repaired_actions ==
                          RepairActionList(next_actions.l, best)
                  IN  IF repaired_actions = Raised THEN Raised
                      ELSE JObj(Put(item.o, "next_actions",
                                    repaired_actions))
             ELSE item
    ELSE item

\* Element of the list comprehension over missing_evidence
RepairMissingEvidence(item, best) ==
    IF IsStr(item)
    THEN JObj([need |-> JStr(Take(item.s, NeedMaxLen)),
               why |-> JStr(DefaultWhy),
               how |-> JStr(DefaultHow),
               priority |-> JStr(<<"medium">>),
               supporting_event_ids |-> JList(<<JStr(best)>>)])
    ELSE item

repair_llm_synthesis(cand, best) ==
    LET filled ==
            WithDefault(WithDefault(WithDefault(WithDefault(WithDefault(
                cand.o,
                "overall_confidence", JNum(20)),
                "executive_summary", JStr(<<>>)),
                "root_cause_hypotheses", JList(<<>>)),
                "recommended_next_actions", JList(<<>>)),
                "missing_evidence", JList(<<>>))
        root_cause_hypotheses == filled["root_cause_hypotheses"]
        fixed_hypotheses ==
            [i \in DOMAIN root_cause_hypotheses.l |->
                RepairHypothesis(root_cause_hypotheses.l[i], best)]
        recommended_next_actions == filled["recommended_next_actions"]
        repaired_actions ==
            RepairActionList(recommended_next_actions.l, best)
        missing_evidence == filled["missing_evidence"]
        after_hypotheses ==
            IF IsList(root_cause_hypotheses)
            THEN Put(filled, "root_cause_hypotheses",
                     JList(fixed_hypotheses))
            ELSE filled
        after_actions ==
            IF IsList(recommended_next_actions)
            THEN Put(after_hypotheses, "recommended_next_actions",
                     repaired_actions)
            ELSE after_hypotheses
        after_missing ==
            IF IsList(missing_evidence)
            THEN Put(after_actions, "missing_evidence",
                     JList([i \in DOMAIN missing_evidence.l |->
                        RepairMissingEvidence(missing_evidence.l[i], best)]))
            ELSE after_actions
    IN  IF /\ IsList(root_cause_hypotheses)
           /\ \E i \in DOMAIN fixed_hypotheses : fixed_hypotheses[i] = Raised
        THEN Raised
        ELSE IF IsList(recommended_next_actions) /\ repaired_actions = Raised
        THEN Raised
        ELSE JObj(after_missing)

\* float(value) fails on None, lists, dicts and on the non-numeric strings
\* of the inputs; the result is in hundredths
_clamp(value, default) ==
    IF ~IsNum(value) THEN default
    ELSE IF value.n < 0 THEN 0
    ELSE IF value.n > 100 THEN 100
    ELSE value.n

\* Body of the loop over facts: the fixed fact, or NoJson on `continue`
RepairFact(item) ==
    IF ~IsObj(item) THEN NoJson
    ELSE LET fact_text == Get(item, "fact")
             supporting_event_ids == Get(item, "supporting_event_ids")
         IN  IF ~IsStr(fact_text) \/ Strip(fact_text.s) = <<>> THEN NoJson
             ELSE IF ~IsList(supporting_event_ids)
                     \/ Len(supporting_event_ids.l) < 1 THEN NoJson
             ELSE LET cleaned_event_ids ==
                          SelectSeq(supporting_event_ids.l, IsStr)
                  IN  IF cleaned_event_ids = <<>> THEN NoJson
                      ELSE JObj(
                        [fact |-> fact_text,
                         supporting_event_ids |-> JList(cleaned_event_ids),
                         confidence |->
                             JNum(_clamp(Get(item, "confidence"), 30))])

repair_llm_facts(cand) ==
    LET repaired0 == IF IsObj(cand) THEN cand.o ELSE <<>>
        clamped ==
            Put(repaired0, "overall_grounding_confidence",
                JNum(_clamp(Get(JObj(repaired0),
                                "overall_grounding_confidence"), 20)))
        facts0 == Get(JObj(clamped), "facts")
        facts == IF IsList(facts0) THEN facts0.l ELSE <<>>
        fixed_facts ==
            SelectSeq([i \in DOMAIN facts |-> RepairFact(facts[i])], IsKept)
    IN  JObj(Put(clamped, "facts", JList(fixed_facts)))

(* ---- the two schemas of cli.py ---- *)

SchemaNumber01(v) == IsNum(v) /\ v.n >= 0 /\ v.n <= 100

SchemaText(v, maxLength) == IsStr(v) /\ Len(v.s) >= 1 /\ Len(v.s) <= maxLength

SchemaEventIds(v) ==
    /\ IsList(v)
    /\ Len(v.l) >= 1
    /\ \A i \in DOMAIN v.l : IsStr(v.l[i])

SchemaErrors(v) == IsList(v) /\ \A i \in DOMAIN v.l : IsObj(v.l[i])

ActionKeys == {"action", "priority", "expected_signal",
               "supporting_event_ids"}

SchemaAction(v) ==
    /\ IsObj(v)
    /\ DOMAIN v.o = ActionKeys
    /\ SchemaText(v.o["action"], ActionMaxLen)
    /\ v.o["priority"] \in ActionPriorities
    /\ SchemaText(v.o["expected_signal"], ActionMaxLen)
    /\ SchemaEventIds(v.o["supporting_event_ids"])

SchemaActionList(v, maxItems) ==
    /\ IsList(v)
    /\ Len(v.l) <= maxItems
    /\ \A i \in DOMAIN v.l : SchemaAction(v.l[i])

HypothesisKeys == {"title", "confidence", "supporting_event_ids",
                   "reasoning", "next_actions"}

SchemaHypothesis(v) ==
    /\ IsObj(v)
    /\ DOMAIN v.o = HypothesisKeys
    /\ SchemaText(v.o["title"], TitleMaxLen)
    /\ SchemaNumber01(v.o["confidence"])
    /\ SchemaEventIds(v.o["supporting_event_ids"])
    /\ SchemaText(v.o["reasoning"], ReasoningMaxLen)
    /\ SchemaActionList(v.o["next_actions"], MaxNextActions)

MissingEvidenceKeys == {"need", "why", "how", "priority",
                        "supporting_event_ids"}

MissingEvidencePriorities ==
    {JStr(<<"high">>), JStr(<<"medium">>), JStr(<<"low">>)}

SchemaMissingEvidence(v) ==
    /\ IsObj(v)
    /\ DOMAIN v.o = MissingEvidenceKeys
    /\ SchemaText(v.o["need"], NeedMaxLen)
    /\ SchemaText(v.o["why"], ActionMaxLen)
    /\ SchemaText(v.o["how"], ActionMaxLen)
    /\ v.o["priority"] \in MissingEvidencePriorities
    /\ SchemaEventIds(v.o["supporting_event_ids"])

SynthesisRequired == {"overall_confidence", "executive_summary",
                      "root_cause_hypotheses", "recommended_next_actions",
                      "missing_evidence"}

SynthesisSchema(p) ==
    /\ IsObj(p)
    /\ SynthesisRequired \subseteq DOMAIN p.o
    /\ DOMAIN p.o \subseteq SynthesisRequired \cup {"model_info", "errors"}
    /\ "model_info" \in DOMAIN p.o => IsObj(p.o["model_info"])
    /\ SchemaNumber01(p.o["overall_confidence"])
    /\ SchemaText(p.o["executive_summary"], SummaryMaxLen)
    /\ IsList(p.o["root_cause_hypotheses"])
    /\ Len(p.o["root_cause_hypotheses"].l) <= MaxHypotheses
    /\ \A i \in DOMAIN p.o["root_cause_hypotheses"].l :
           SchemaHypothesis(p.o["root_cause_hypotheses"].l[i])
    /\ SchemaActionList(p.o["recommended_next_actions"],
                        MaxRecommendedActions)
    /\ IsList(p.o["missing_evidence"])
    /\ Len(p.o["missing_evidence"].l) <= MaxMissingEvidence
    /\ \A i \in DOMAIN p.o["missing_evidence"].l :
           SchemaMissingEvidence(p.o["missing_evidence"].l[i])
    /\ "errors" \in DOMAIN p.o => SchemaErrors(p.o["errors"])

\* TRUE when _validate_llm_synthesis returns without raising.  Without the
\* jsonschema package only the required keys are checked.
_validate_llm_synthesis(p, jsonschema) ==
    IF jsonschema THEN SynthesisSchema(p)
    ELSE IsObj(p) /\ SynthesisRequired \subseteq DOMAIN p.o

FactKeys == {"fact", "supporting_event_ids", "confidence"}

SchemaFact(v) ==
    /\ IsObj(v)
    /\ DOMAIN v.o = FactKeys
    /\ SchemaText(v.o["fact"], FactMaxLen)
    /\ SchemaEventIds(v.o["supporting_event_ids"])
    /\ SchemaNumber01(v.o["confidence"])

FactsRequired == {"overall_grounding_confidence", "facts"}

FactsSchema(p) ==
    /\ IsObj(p)
    /\ FactsRequired \subseteq DOMAIN p.o
    /\ DOMAIN p.o \subseteq FactsRequired \cup {"errors"}
    /\ SchemaNumber01(p.o["overall_grounding_confidence"])
    /\ IsList(p.o["facts"])
    /\ Len(p.o["facts"].l) <= MaxFacts
    /\ \A i \in DOMAIN p.o["facts"].l : SchemaFact(p.o["facts"].l[i])
    /\ "errors" \in DOMAIN p.o => SchemaErrors(p.o["errors"])

\* TRUE when _validate_llm_facts returns without raising
_validate_llm_facts(p, jsonschema) ==
    IF jsonschema THEN FactsSchema(p)
    ELSE IsObj(p) /\ FactsRequired \subseteq DOMAIN p.o

(* ---- inputs ---- *)

\* Texts over the characters "a" and " "
Texts == {<<>>, <<"a">>, <<" ">>, <<" ", "a">>}

BestEventIds == {<<"evt-0">>, <<"evt-1">>}

EventIdLists ==
    {JList(<<>>), JList(<<JStr(<<"evt-1">>)>>), JList(<<JNum(7)>>),
     JList(<<JNum(7), JStr(<<"evt-2">>)>>)}

\* A key that is absent, or present with one of the values
Opt(key, values) == {<<>>} \cup {key :> v : v \in values}

ActionObjects ==
    {JObj(a @@ p @@ e @@ ids) :
        a \in Opt("action", {JStr(t) : t \in Texts}),
        p \in Opt("priority", {JStr(<<"P0">>), JStr(<<"P9">>)}),
        e \in Opt("expected_signal", {JStr(<<"a">>), JStr(<<" ", "a">>)}),
        ids \in Opt("supporting_event_ids", EventIdLists)}

UnhashablePriorityAction ==
    JObj([action |-> JStr(<<"a">>), priority |-> JList(<<>>)])

ExtraKeyAction ==
    JObj([action |-> JStr(<<"a">>), priority |-> JStr(<<"P0">>),
          expected_signal |-> JStr(<<"a">>),
          supporting_event_ids |-> JList(<<JStr(<<"evt-1">>)>>),
          note |-> JStr(<<"a">>)])

ActionItems ==
    ActionObjects \cup {UnhashablePriorityAction, ExtraKeyAction, JNum(1)}
        \cup {JStr(t) : t \in Texts}

ValidAction(text) ==
    JObj([action |-> JStr(text), priority |-> JStr(<<"P0">>),
          expected_signal |-> JStr(<<"a">>),
          supporting_event_ids |-> JList(<<JStr(<<"evt-1">>)>>)])

NestedActionItems ==
    {ValidAction(<<"a">>), ValidAction(<<" ", "a">>), ValidAction(<<" ">>),
     JObj([action |-> JStr(<<"a">>)]), JStr(<<"a">>),
     UnhashablePriorityAction}

HypothesisFields ==
    {[title |-> JStr(<<"a">>), confidence |-> JNum(30),
      supporting_event_ids |-> JList(<<JStr(<<"evt-1">>)>>),
      reasoning |-> JStr(<<"a">>)],
     [title |-> JStr(<<"a">>), confidence |-> JNum(150),
      supporting_event_ids |-> JList(<<JStr(<<"evt-1">>)>>),
      reasoning |-> JStr(<<"a">>)],
     [title |-> JStr(<<"a">>)]}

HypothesisItems ==
    {JStr(<<"a">>), JStr(<<>>), JNum(1)} \cup
    {JObj(h @@ na) :
        h \in HypothesisFields,
        na \in Opt("next_actions",
                   {JNum(1)} \cup
                   {JList(x) : x \in SeqsOf(NestedActionItems, 0, MaxItems)})}

MissingEvidenceItems ==
    {JStr(<<"a">>), JStr(<<>>), JNum(1),
     JObj([need |-> JStr(<<"a">>), why |-> JStr(<<"a">>),
           how |-> JStr(<<"a">>), priority |-> JStr(<<"low">>),
           supporting_event_ids |-> JList(<<JStr(<<"evt-1">>)>>)]),
     JObj([need |-> JStr(<<"a">>)])}

BaseSynthesis ==
    [overall_confidence |-> JNum(50),
     executive_summary |-> JStr(<<"a">>),
     root_cause_hypotheses |-> JList(<<>>),
     recommended_next_actions |-> JList(<<>>),
     missing_evidence |-> JList(<<>>)]

FullSynthesis ==
    BaseSynthesis @@ [model_info |-> JObj(<<>>), errors |-> JList(<<>>),
                      bogus |-> JNum(1)]

SynthesisCandidates ==
    {JObj(Put(BaseSynthesis, "recommended_next_actions", JList(x))) :
        x \in SeqsOf(ActionItems, 0, MaxItems)}
    \cup
    {JObj(Put(BaseSynthesis, "root_cause_hypotheses", JList(x))) :
        x \in SeqsOf(HypothesisItems, 0, MaxItems)}
    \cup
    {JObj(Put(BaseSynthesis, "missing_evidence", JList(x))) :
        x \in SeqsOf(MissingEvidenceItems, 0, MaxItems)}
    \cup
    {JObj([k \in K |-> FullSynthesis[k]]) : K \in SUBSET DOMAIN FullSynthesis}
    \cup
    {JObj(Put(BaseSynthesis, "overall_confidence", v)) :
        v \in {JNum(150), JNum(0 - 10), JStr(<<"a">>), NoJson}}
    \cup
    {JObj(Put(BaseSynthesis, "executive_summary", v)) :
        v \in {JStr(<<>>), JStr(<<" ">>), JNum(1)}}
    \cup
    {JObj(Put(BaseSynthesis, k, v)) :
        k \in {"root_cause_hypotheses", "recommended_next_actions",
               "missing_evidence"},
        v \in {JNum(1), NoJson}}

FactObjects ==
    {JObj(f @@ ids @@ c) :
        f \in Opt("fact", {JStr(t) : t \in Texts}),
        ids \in Opt("supporting_event_ids", EventIdLists),
        c \in Opt("confidence", {JNum(30), JNum(150), JNum(0 - 10)})}

ExtraKeyFact ==
    JObj([fact |-> JStr(<<"a">>),
          supporting_event_ids |-> JList(<<JStr(<<"evt-1">>)>>),
          confidence |-> JNum(30), note |-> JStr(<<"a">>)])

FactItems == FactObjects \cup {ExtraKeyFact, JNum(1), JStr(<<"a">>)}

ValidFact ==
    JObj([fact |-> JStr(<<"a">>),
          supporting_event_ids |-> JList(<<JStr(<<"evt-1">>)>>),
          confidence |-> JNum(30)])

FactsCandidates ==
    {JObj([overall_grounding_confidence |-> JNum(50), facts |-> JList(x)]) :
        x \in SeqsOf(FactItems, 0, MaxItems)}
    \cup
    {JObj(c @@ f @@ e) :
        c \in Opt("overall_grounding_confidence",
                  {JNum(50), JNum(150), JNum(0 - 10), JStr(<<"a">>)}),
        f \in Opt("facts", {JNum(1), JList(<<>>), JList(<<ValidFact>>)}),
        e \in {<<>>, "errors" :> JList(<<>>), "bogus" :> JNum(1)}}
    \cup
    {JList(<<>>)}

(* ---- the repair step ---- *)

InitRepair ==
    /\ IdlePhases /\ IdleRules /\ IdlePack /\ IdleLater
    /\ kind \in {"synthesis", "facts"}
    /\ candidate \in IF kind = "synthesis" THEN SynthesisCandidates
                     ELSE FactsCandidates
    /\ best_event_id \in IF kind = "synthesis" THEN BestEventIds
                         ELSE {<<"evt-0">>}
    /\ has_jsonschema \in BOOLEAN
    /\ repaired = NoJson
    /\ qpc = "start"

\* candidate = repair_llm_synthesis(candidate, best_event_id=...)
RepairSynthesis ==
    /\ qpc = "start"
    /\ kind = "synthesis"
    /\ repaired' = repair_llm_synthesis(candidate, best_event_id)
    /\ qpc' = "repaired"
    /\ UNCHANGED <<candidate, kind, best_event_id, has_jsonschema>>
    /\ UNCHANGED <<phaseVars, rulesVars, packVars, laterVars>>

\* repaired_facts = repair_llm_facts(facts_candidate)
RepairFacts ==
    /\ qpc = "start"
    /\ kind = "facts"
    /\ repaired' = repair_llm_facts(candidate)
    /\ qpc' = "repaired"
    /\ UNCHANGED <<candidate, kind, best_event_id, has_jsonschema>>
    /\ UNCHANGED <<phaseVars, rulesVars, packVars, laterVars>>

NextRepair == RepairSynthesis \/ RepairFacts

SpecRepair == InitRepair /\ [][NextRepair]_vars

(* ---- properties of the repair step ---- *)

\* The validator of the payload kind, in the environment of the run
Validates(k, p) ==
    IF k = "synthesis" THEN _validate_llm_synthesis(p, has_jsonschema)
    ELSE _validate_llm_facts(p, has_jsonschema)

\* C9: a payload that passes validation (here even the full schema
\* validation) comes back from its repair function equal to the input and
\* still passes validation.
RepairIdempotentOnValid ==
    (qpc = "repaired" /\ has_jsonschema /\ Validates(kind, candidate))
        => (repaired = candidate /\ Validates(kind, repaired))

\* The list under a top-level key of the input / of the repaired payload
InputList(key) ==
    IF IsObj(candidate) /\ IsList(Get(candidate, key))
    THEN Get(candidate, key).l ELSE <<>>

OutputList(key) ==
    IF IsObj(repaired) /\ IsList(Get(repaired, key))
    THEN Get(repaired, key).l ELSE <<>>

StringIds(item) ==
    LET ids == Get(item, "supporting_event_ids")
    IN  IF IsList(ids) THEN SelectSeq(ids.l, IsStr) ELSE <<>>

NonBlankText(item, key) ==
    IsStr(Get(item, key)) /\ Strip(Get(item, key).s) # <<>>

\* An object entry without a non-empty text under key, or without a
\* non-empty list of supporting event ids
LacksTextOrIds(item, key) ==
    /\ IsObj(item)
    /\ \/ ~IsStr(Get(item, key))
       \/ Get(item, key).s = <<>>
       \/ ~IsList(Get(item, "supporting_event_ids"))
       \/ Get(item, "supporting_event_ids").l = <<>>

\* No more entries come out than entries that lack nothing went in
DropsLacking(in, out, key) ==
    Len(out) <= Cardinality({i \in DOMAIN in : ~LacksTextOrIds(in[i], key)})

\* The hypotheses whose next_actions list is repaired
RepairedHypotheses ==
    {i \in DOMAIN InputList("root_cause_hypotheses") :
        /\ IsObj(InputList("root_cause_hypotheses")[i])
        /\ IsList(Get(InputList("root_cause_hypotheses")[i],
                      "next_actions"))}

NextActionsIn(i) ==
    Get(InputList("root_cause_hypotheses")[i], "next_actions").l

NextActionsOut(i) ==
    Get(OutputList("root_cause_hypotheses")[i], "next_actions").l

HasFactTextAndIds(item) ==
    IsObj(item) /\ NonBlankText(item, "fact") /\ StringIds(item) # <<>>

\* The facts that come out are exactly the entries with a non-blank fact
\* text and a string id, with that text and those ids
FactsDropped(in, out) ==
    /\ Len(out) = Cardinality({i \in DOMAIN in : HasFactTextAndIds(in[i])})
    /\ \A j \in DOMAIN out : \E i \in DOMAIN in :
          /\ HasFactTextAndIds(in[i])
          /\ out[j].o["fact"] = Get(in[i], "fact")
          /\ out[j].o["supporting_event_ids"].l = StringIds(in[i])

HasActionText(item) ==
    \/ IsStr(item) /\ Strip(item.s) # <<>>
    \/ IsObj(item) /\ NonBlankText(item, "action")

ActionText(item) == IF IsStr(item) THEN item.s ELSE Get(item, "action").s

\* The actions that come out are exactly the entries with a non-blank
\* action text; one without a string id carries [best_event_id]
ActionsDroppedOrCompleted(in, out) ==
    /\ Len(out) = Cardinality({i \in DOMAIN in : HasActionText(in[i])})
    /\ \A j \in DOMAIN out : \E i \in DOMAIN in :
          /\ HasActionText(in[i])
          /\ out[j].o["action"].s =
                 Take(Strip(ActionText(in[i])), ActionMaxLen)
          /\ out[j].o["supporting_event_ids"].l =
                 IF IsObj(in[i]) /\ StringIds(in[i]) # <<>>
                 THEN StringIds(in[i])
                 ELSE <<JStr(best_event_id)>>

InUnitRange(v) == IsNum(v) /\ v.n >= 0 /\ v.n <= 100

\* A confidence that was numeric in the input lies in [0,1] in the output
ClampedField(inObj, outObj, key) ==
    IsNum(Get(inObj, key)) => InUnitRange(Get(outObj, key))

\* C11: after repair every numeric confidence lies in [0,1]:
\* overall_grounding_confidence and each fact's confidence after
\* repair_llm_facts, overall_confidence and each hypothesis's confidence
\* after repair_llm_synthesis.
RepairClampsConfidences ==
    (qpc = "repaired" /\ repaired # Raised /\ IsObj(candidate)) =>
        IF kind = "facts"
        THEN /\ InUnitRange(Get(repaired, "overall_grounding_confidence"))
             /\ \A j \in DOMAIN OutputList("facts") :
                    InUnitRange(Get(OutputList("facts")[j], "confidence"))
        ELSE /\ ClampedField(candidate, repaired, "overall_confidence")
             /\ \A i \in DOMAIN InputList("root_cause_hypotheses") :
                    IsObj(InputList("root_cause_hypotheses")[i]) =>
                        ClampedField(
                            InputList("root_cause_hypotheses")[i],
                            OutputList("root_cause_hypotheses")[i],
                            "confidence")

\* A complete object made from a bare string: the text under key is the
\* string and supporting_event_ids is [best_event_id]
WrapsString(obj, key, str) ==
    /\ IsObj(obj)
    /\ Get(obj, key) = str
    /\ Get(obj, "supporting_event_ids") = JList(<<JStr(best_event_id)>>)

\* Every bare string of an action list has its object in the output list
ActionStringsWrapped(in, out) ==
    \A i \in DOMAIN in :
        IsStr(in[i]) =>
            \E j \in DOMAIN out :
                WrapsString(out[j], "action", in[i]) /\ SchemaAction(out[j])

\* An item that needs nothing but the coercion of bare strings
StringOrValid(item, Valid(_)) == IsStr(item) \/ Valid(item)

HypothesisStringOrValid(item) ==
    \/ IsStr(item)
    \/ /\ IsObj(item)
       /\ IsList(Get(item, "next_actions"))
       /\ \A i \in DOMAIN Get(item, "next_actions").l :
              StringOrValid(Get(item, "next_actions").l[i], SchemaAction)
       /\ SchemaHypothesis(
              JObj(Put(item.o, "next_actions", JList(<<>>))))

\* The payload is schema-valid apart from bare strings standing for objects
ValidApartFromStrings ==
    /\ IsObj(candidate)
    /\ SynthesisSchema(
           JObj(Put(Put(Put(candidate.o,
                "root_cause_hypotheses", JList(<<>>)),
                "recommended_next_actions", JList(<<>>)),
                "missing_evidence", JList(<<>>))))
    /\ \A k \in {"root_cause_hypotheses", "recommended_next_actions",
                 "missing_evidence"} : IsList(Get(candidate, k))
    /\ \A i \in DOMAIN InputList("root_cause_hypotheses") :
           HypothesisStringOrValid(InputList("root_cause_hypotheses")[i])
    /\ \A i \in DOMAIN InputList("recommended_next_actions") :
           StringOrValid(InputList("recommended_next_actions")[i],
                         SchemaAction)
    /\ \A i \in DOMAIN InputList("missing_evidence") :
           StringOrValid(InputList("missing_evidence")[i],
                         SchemaMissingEvidence)

\* C12: repair_llm_synthesis replaces every bare string item of
\* root_cause_hypotheses, recommended_next_actions, missing_evidence and of
\* a hypothesis's next_actions by a complete object whose text field
\* (title / action / need) is that string and whose supporting_event_ids is
\* [best_event_id], and the repaired payload then passes validation.
StringItemsCoerced ==
    (qpc = "repaired" /\ kind = "synthesis" /\ repaired # Raised) =>
        /\ \A i \in DOMAIN InputList("root_cause_hypotheses") :
               IsStr(InputList("root_cause_hypotheses")[i]) =>
                   WrapsString(OutputList("root_cause_hypotheses")[i],
                               "title",
                               InputList("root_cause_hypotheses")[i])
        /\ \A i \in DOMAIN InputList("missing_evidence") :
               IsStr(InputList("missing_evidence")[i]) =>
                   WrapsString(OutputList("missing_evidence")[i], "need",
                               InputList("missing_evidence")[i])
        /\ ActionStringsWrapped(InputList("recommended_next_actions"),
                                OutputList("recommended_next_actions"))
        /\ \A i \in RepairedHypotheses :
               ActionStringsWrapped(NextActionsIn(i), NextActionsOut(i))
        /\ ValidApartFromStrings => Validates(kind, repaired)

-----------------------------------------------------------------------------
(* cli.py: boot-blocking selection, output.py: apply_output_mode           *)

cli_SEVERITY_SCORES ==
    [fatal |-> 100, high |-> 60, medium |-> 30, low |-> 10, info |-> 1]

_PHASE_PENALTIES == [SEC |-> 0, PEI |-> 2, DXE |-> 4, BDS |-> 6]

\* event.get("where", {}).get("phase")
EventPhase(event) ==
    IF "where" \in DOMAIN event /\ "phase" \in DOMAIN event.where
    THEN event.where.phase ELSE "None"

\* Stands for None where a line number is expected (line numbers are >= 0)
NoLine == 0 - 1

\* event.get("where", {}).get("line_range", {}).get("start"), or NoLine
EventStart(event) ==
    IF /\ "where" \in DOMAIN event
       /\ "line_range" \in DOMAIN event.where
       /\ "start" \in DOMAIN event.where.line_range
    THEN event.where.line_range.start ELSE NoLine

\* str.lower() on the severity names that occur
StrLower(text) ==
    CASE text = "FATAL" -> "fatal"
      [] text = "High" -> "high"
      [] OTHER -> text

_boot_blocking_score(event) ==
    LET severity_score ==
            IF StrLower(event.severity) \in DOMAIN cli_SEVERITY_SCORES
            THEN cli_SEVERITY_SCORES[StrLower(event.severity)] ELSE 0
        phase_penalty ==
            IF EventPhase(event) \in DOMAIN _PHASE_PENALTIES
            THEN _PHASE_PENALTIES[EventPhase(event)] ELSE 0
    IN  severity_score + RoundConfidence20(event.confidence) - phase_penalty

IsBlocking(event) == event.boot_blocking

MissingStart == 1000000000

\* Second component of the key: -int(start), start defaulting to 10**9
NegStart(event) ==
    IF EventStart(event) = NoLine THEN 0 - MissingStart
    ELSE 0 - EventStart(event)

\* Ties on the score go to the larger start
KeyLessLatestWins(a, b) ==
    \/ _boot_blocking_score(a) < _boot_blocking_score(b)
    \/ /\ _boot_blocking_score(a) = _boot_blocking_score(b)
       /\ NegStart(a) > NegStart(b)

\* Tuple comparison of the keys (score, -start)
KeyLess(a, b) ==
    \/ _boot_blocking_score(a) < _boot_blocking_score(b)
    \/ /\ _boot_blocking_score(a) = _boot_blocking_score(b)
       /\ NegStart(a) < NegStart(b)

\* max(blocking, key=...) returns the first of the maximal elements;
\* "None" stands for None
_select_boot_blocking_event_id(events) ==
    LET blocking == SelectSeq(events, IsBlocking)
        maximal == {i \in DOMAIN blocking :
                       \A j \in DOMAIN blocking :
                           ~KeyLess(blocking[i], blocking[j])}
    IN  IF blocking = <<>> THEN "None"
        ELSE blocking[CHOOSE i \in maximal : \A k \in maximal : i <= k]
                 .event_id

\* The first line of the window, whatever the hit line is
MatchedLineFirst(lines, hit_line) ==
    IF lines = <<>> THEN <<>> ELSE <<lines[1]>>

\* next((line for line in lines if line.get("idx") == hit_line), None),
\* as the list assigned to evidence["lines"]
MatchedLine(lines, hit_line) ==
    LET at == {j \in DOMAIN lines : lines[j].idx = hit_line}
    IN  IF hit_line = NoLine \/ at = {} THEN <<>>
        ELSE << lines[CHOOSE j \in at : \A k \in at : j <= k] >>

\* Body of the loop over evidence_entries
ShapedEvidence(evidence, hit_line, mode) ==
    IF mode = "tiny"
    THEN [k \in (DOMAIN evidence) \ {"lines"} |-> evidence[k]]
    ELSE IF "lines" \notin DOMAIN evidence THEN evidence
    ELSE [evidence EXCEPT !.lines = MatchedLine(evidence.lines, hit_line)]

\* Body of the loop over events
ShapedEvent(event, mode) ==
    IF "evidence" \notin DOMAIN event THEN event
    ELSE [event EXCEPT !.evidence =
            [j \in DOMAIN event.evidence |->
                ShapedEvidence(event.evidence[j], EventStart(event), mode)]]

\* First component of the returned pair
apply_output_mode(out, mode) ==
    IF mode = "full" THEN out
    ELSE [out EXCEPT !.events =
            [i \in DOMAIN out.events |-> ShapedEvent(out.events[i], mode)]]

-----------------------------------------------------------------------------
(* cli.py: main                                                            *)

\* Number of events the log of a run holds at most
MaxMainEvents == 1

MainEventLists == {evs \in PackEventLists : Len(evs) <= MaxMainEvents}

\* An exception: class name and str(exc)
Exc(type, detail) == [exc |-> type, detail |-> detail]

IsExc(v) == "exc" \in DOMAIN v

\* What OllamaClient.generate_json can raise
GenerateFailures ==
    {Exc("RuntimeError", "Ollama request timed out"),
     Exc("RuntimeError", "Ollama request failed with HTTP 500"),
     Exc("ValueError", "Ollama returned invalid JSON content in 'response'"),
     Exc("ValueError", "Ollama JSON content is not an object")}

\* A text longer than the schema allows for executive_summary
LongSummary == [i \in 1..(SummaryMaxLen + 1) |-> "a"]

OnlySummary(text) == JObj([executive_summary |-> JStr(text)])

\* Replies to the facts call: a failure, a client returning a JSON list,
\* or an object
FactsReplies ==
    {Exc("RuntimeError", "Ollama request timed out"),
     JList(<<>>),
     JObj([overall_grounding_confidence |-> JNum(50),
           facts |-> JList(<<ValidFact>>)]),
     JObj([facts |-> JList(<<JObj([fact |-> JStr(<<" ">>)])>>)]),
     JObj([overall_grounding_confidence |-> JNum(50),
           facts |-> JList(<<>>), bogus |-> JNum(1)])}

\* Replies to the synthesis call
SynthesisReplies ==
    GenerateFailures \cup
    {JList(<<>>),
     JObj(BaseSynthesis),
     JObj(Put(BaseSynthesis, "recommended_next_actions",
              JList(<<ValidAction(<<"a">>), JStr(<<"a">>)>>))),
     OnlySummary(<<"a">>),
     OnlySummary(<<" ">>),
     OnlySummary(LongSummary),
     JObj([evidence_pack |-> JObj(<<>>)]),
     JObj(Put(BaseSynthesis, "selected_events", JList(<<>>))),
     JObj([llm_synthesis |-> JObj(BaseSynthesis)]),
     JObj([llm_synthesis |-> JObj([selected_events |-> JList(<<>>)])]),
     JObj([llm_synthesis |-> JObj(BaseSynthesis),
           evidence_pack |-> JObj(<<>>)]),
     JObj(Put(BaseSynthesis, "recommended_next_actions",
              JList(<<UnhashablePriorityAction>>))),
     JObj(Put(BaseSynthesis, "executive_summary", JStr(<<>>))),
     JObj(Put(BaseSynthesis, "overall_confidence", JNum(150))),
     JObj(Put(BaseSynthesis, "bogus", JNum(1)))}

NoReply == [unused |-> TRUE]

\* len(prompt) of the three prompts; the prompt texts are not modelled
FactsPromptLen == 3
SynthesisPromptLen == 2
UserPromptLen == 1

\* events of the run: run_rules is skipped under --no-rules
RunEvents == IF args.no_rules THEN <<>> ELSE log_events

\* Lines 528-548: the output dict of the deterministic stages
BuiltOutput(events) ==
    [schema_version |-> "0.1.0",
     normalization |-> [line_count |-> Len(LogText), empty_line_count |-> 0],
     events |-> events,
     llm_enabled |-> args.llm,
     boot_timeline |->
        [segments |-> <<>>,
         boot_outcome |-> "unknown",
         boot_blocking_event_id |-> _select_boot_blocking_event_id(events)],
     signals |-> [stalls |-> <<>>]]

\* The part of build_evidence_pack that the later steps of main read
EvidencePackOf(out) ==
    [schema_version |-> out.schema_version,
     selected_events |-> SelectInitial(out.events, args.llm_top_k)]

_select_best_llm_event_id(out) ==
    IF out.boot_timeline.boot_blocking_event_id # "None"
    THEN <<out.boot_timeline.boot_blocking_event_id>>
    ELSE IF "llm_input" \in DOMAIN out /\ out.llm_input.selected_events # <<>>
    THEN <<out.llm_input.selected_events[1].event_id>>
    ELSE IF out.events # <<>>
    THEN <<out.events[1].event_id>>
    ELSE <<"evt-0">>

\* One errors entry of a fallback payload
ErrorEntry(exc, keys, message) ==
    JObj([type |-> JStr(<<exc.exc>>),
          message |-> JStr(<<message>>),
          detail |-> JStr(<<exc.detail>>),
          model |-> JStr(<<args.model>>),
          timeout_s |-> [int |-> Max(1, args.llm_timeout_s)],
          prompt_len |-> [int |-> prompt_len],
          candidate_keys |-> [sorted |-> keys]])

\* The fallback payload without its errors entry
_llm_fallbackNoErrors(exc, keys) ==
    JObj([overall_confidence |-> JNum(0),
          executive_summary |-> JStr(<<"LLM synthesis failed; see errors.">>),
          root_cause_hypotheses |-> JList(<<>>),
          recommended_next_actions |-> JList(<<>>),
          missing_evidence |-> JList(<<>>)])

_llm_fallback(exc, keys) ==
    JObj([overall_confidence |-> JNum(0),
          executive_summary |-> JStr(<<"LLM synthesis failed; see errors.">>),
          root_cause_hypotheses |-> JList(<<>>),
          recommended_next_actions |-> JList(<<>>),
          missing_evidence |-> JList(<<>>),
          errors |-> JList(<<ErrorEntry(exc, keys,
                "Failed to generate or validate LLM synthesis")>>)])

\* The facts fallback without its errors entry
_llm_facts_fallbackNoErrors(exc, keys) ==
    JObj([overall_grounding_confidence |-> JNum(0),
          facts |-> JList(<<>>)])

_llm_facts_fallback(exc, keys) ==
    JObj([overall_grounding_confidence |-> JNum(0),
          facts |-> JList(<<>>),
          errors |-> JList(<<ErrorEntry(exc, keys,
                "Failed to generate or validate LLM facts")>>)])

\* validate_output: the tool output contract
validate_output(data) ==
    /\ {"schema_version", "normalization", "events", "llm_enabled"}
           \subseteq DOMAIN data
    /\ data.schema_version \in {"0.1.0"}
    /\ "line_count" \in DOMAIN data.normalization
    /\ data.normalization.line_count >= 0
    /\ \A i \in DOMAIN data.events : DOMAIN data.events[i] # {}
    /\ data.llm_enabled \in BOOLEAN

MainArgs ==
    {a \in [no_rules : BOOLEAN, rulepack : {"ok", "malformed"},
            llm : BOOLEAN, llm_two_pass : BOOLEAN, validate : BOOLEAN,
            output_mode : {"full", "slim", "tiny"}, llm_top_k : {5},
            model : {"llama3"}, llm_timeout_s : {300}] :
        a.no_rules => a.rulepack = "ok"}

InitMain ==
    /\ IdlePhases /\ IdleRules /\ IdlePack
    /\ IdleStalls /\ IdleSelect /\ IdleShape /\ IdleEnrich
    /\ args \in MainArgs
    /\ log_events \in MainEventLists
    /\ llm_replies \in
          [facts : IF args.llm /\ args.llm_two_pass THEN FactsReplies
                   ELSE {NoReply},
           synthesis : IF args.llm THEN SynthesisReplies ELSE {NoReply}]
    /\ has_jsonschema \in IF args.llm THEN BOOLEAN ELSE {TRUE}
    /\ candidate = NoJson /\ kind = "synthesis"
    /\ best_event_id = <<"evt-0">> /\ repaired = NoJson /\ qpc = "idle"
    /\ main_output = NoOutput /\ det_output = NoOutput
    /\ stages = <<>> /\ calls = <<>> /\ llm_ok = FALSE /\ prompt_len = 0
    /\ candidate_keys = {} /\ pending_exc = NoExc /\ exit_code = "none"
    /\ mpc = "start"

MainInputs == <<args, log_events, llm_replies, has_jsonschema>>
MainRepairLocals == <<candidate, kind, best_event_id, repaired>>
MainLlmLocals == <<calls, llm_ok, prompt_len, candidate_keys, pending_exc>>
MainFrame == <<phaseVars, rulesVars, packVars, qpc, MainInputs, stallVars,
               selectVars, shapeVars, enrichVars>>

\* A stage of lines 470-474 runs
RunStage(at, name, next) ==
    /\ mpc = at
    /\ stages' = Append(stages, name)
    /\ mpc' = next
    /\ UNCHANGED <<main_output, det_output, exit_code, MainLlmLocals,
                   MainRepairLocals, MainFrame>>

\* Line 470
LoadAndNormalize == RunStage("start", "normalization", "phases")

\* Line 471
DetectPhases == RunStage("phases", "phase_detection", "segments")

\* Line 472
BuildSegments == RunStage("segments", "segment_building", "markers")

\* Line 474
ExtractMarkers == RunStage("markers", "marker_extraction", "rules")

\* Line 477: --no-rules
SkipRules ==
    /\ mpc = "rules"
    /\ args.no_rules
    /\ mpc' = "output"
    /\ UNCHANGED <<stages, main_output, det_output, exit_code, MainLlmLocals,
                   MainRepairLocals, MainFrame>>

\* Line 492: load_rulepack raises ValueError, which nothing in main catches
LoadRulepackFails ==
    /\ mpc = "rules"
    /\ ~args.no_rules
    /\ args.rulepack = "malformed"
    /\ pending_exc' = Exc("ValueError", "Rule #1 is missing required keys")
    /\ exit_code' = "uncaught"
    /\ mpc' = "aborted"
    /\ UNCHANGED <<stages, main_output, det_output, calls, llm_ok, prompt_len,
                   candidate_keys, MainRepairLocals, MainFrame>>

\* Lines 490-501
RunRules ==
    /\ ~args.no_rules
    /\ args.rulepack = "ok"
    /\ RunStage("rules", "rule_evaluation", "output")

\* Lines 503-548
BuildOutput ==
    /\ mpc = "output"
    /\ main_output' = BuiltOutput(RunEvents)
    /\ det_output' = main_output'
    /\ stages' = Append(stages, "signals")
    /\ mpc' = IF args.llm THEN "llm" ELSE "shape"
    /\ UNCHANGED <<exit_code, MainLlmLocals, MainRepairLocals, MainFrame>>

\* Lines 551-564
LlmBuildPack ==
    /\ mpc = "llm"
    /\ main_output' = Put(main_output, "llm_input",
                          EvidencePackOf(main_output))
    /\ llm_ok' = FALSE
    /\ prompt_len' = 0
    /\ candidate_keys' = {}
    /\ mpc' = IF args.llm_two_pass THEN "facts_call" ELSE "synth_call"
    /\ UNCHANGED <<det_output, stages, calls, pending_exc, exit_code,
                   MainRepairLocals, MainFrame>>

\* Lines 567-578: the facts call is issued
FactsCallIssued ==
    /\ mpc = "facts_call"
    /\ calls' = Append(calls, "facts")
    /\ prompt_len' = FactsPromptLen
    /\ UNCHANGED <<det_output, stages, llm_ok, candidate_keys, exit_code,
                   best_event_id, MainFrame>>

\* generate_json raises
FactsCallRaises ==
    /\ FactsCallIssued
    /\ IsExc(llm_replies.facts)
    /\ pending_exc' = llm_replies.facts
    /\ mpc' = "except"
    /\ UNCHANGED <<main_output, candidate, kind, repaired>>

\* Lines 579-580
FactsCallNonObject ==
    /\ FactsCallIssued
    /\ ~IsExc(llm_replies.facts)
    /\ ~IsObj(llm_replies.facts)
    /\ pending_exc' = Exc("ValueError",
                          "LLM facts pass returned non-object JSON")
    /\ mpc' = "except"
    /\ UNCHANGED <<main_output, candidate, kind, repaired>>

FactsRepairPasses ==
    _validate_llm_facts(repair_llm_facts(llm_replies.facts), has_jsonschema)

\* Lines 582-586, 597: the repaired facts validate
FactsRepaired ==
    /\ FactsCallIssued
    /\ IsObj(llm_replies.facts)
    /\ FactsRepairPasses
    /\ kind' = "facts"
    /\ candidate' = llm_replies.facts
    /\ repaired' = repair_llm_facts(llm_replies.facts)
    /\ main_output' = Put(main_output, "llm_facts", repaired')
    /\ mpc' = "synth_call"
    /\ UNCHANGED pending_exc

\* Lines 587-597: validation raises and the facts fallback is stored
FactsFallback ==
    /\ FactsCallIssued
    /\ IsObj(llm_replies.facts)
    /\ ~FactsRepairPasses
    /\ kind' = "facts"
    /\ candidate' = llm_replies.facts
    /\ repaired' = repair_llm_facts(llm_replies.facts)
    /\ main_output' =
          Put(main_output, "llm_facts",
              _llm_facts_fallback(
                  Exc("ValueError", "llm_facts validation failed"),
                  DOMAIN llm_replies.facts.o))
    /\ mpc' = "synth_call"
    /\ UNCHANGED pending_exc

\* Lines 619-632 and 634-643: the synthesis call is issued
SynthesisCallIssued ==
    /\ mpc = "synth_call"
    /\ calls' = Append(calls, "synthesis")
    /\ prompt_len' = IF args.llm_two_pass THEN SynthesisPromptLen
                     ELSE UserPromptLen
    /\ UNCHANGED <<main_output, det_output, stages, llm_ok, candidate_keys,
                   exit_code, best_event_id, repaired, MainFrame>>

SynthesisCallRaises ==
    /\ SynthesisCallIssued
    /\ IsExc(llm_replies.synthesis)
    /\ pending_exc' = llm_replies.synthesis
    /\ mpc' = "except"
    /\ UNCHANGED <<candidate, kind>>

\* Lines 645-646
SynthesisCallNonObject ==
    /\ SynthesisCallIssued
    /\ ~IsExc(llm_replies.synthesis)
    /\ ~IsObj(llm_replies.synthesis)
    /\ pending_exc' = Exc("ValueError", "LLM returned non-object JSON")
    /\ mpc' = "except"
    /\ UNCHANGED <<candidate, kind>>

SynthesisCallReturns ==
    /\ SynthesisCallIssued
    /\ IsObj(llm_replies.synthesis)
    /\ candidate' = llm_replies.synthesis
    /\ kind' = "synthesis"
    /\ mpc' = "process"
    /\ UNCHANGED pending_exc

\* Lines 648-650: the object under llm_synthesis, when there is one
Unwrapped ==
    IF IsObj(Get(candidate, "llm_synthesis"))
    THEN Get(candidate, "llm_synthesis") ELSE candidate

\* Line 651
Echoed ==
    \/ "evidence_pack" \in DOMAIN Unwrapped.o
    \/ "selected_events" \in DOMAIN Unwrapped.o

RepairedCandidate ==
    repair_llm_synthesis(Unwrapped, _select_best_llm_event_id(main_output))

\* Lines 647-650
CandidateUnwrapped ==
    /\ mpc = "process"
    /\ candidate_keys' = DOMAIN Unwrapped.o
    /\ UNCHANGED <<det_output, stages, calls, prompt_len, exit_code, kind,
                   MainFrame>>

\* Lines 651-652
SynthesisEchoed ==
    /\ CandidateUnwrapped
    /\ Echoed
    /\ candidate' = Unwrapped
    /\ pending_exc' =
          Exc("ValueError",
              "LLM echoed input evidence pack instead of producing llm_synthesis")
    /\ mpc' = "except"
    /\ UNCHANGED <<main_output, llm_ok, best_event_id, repaired>>

\* Line 653 raises
SynthesisRepairRaises ==
    /\ CandidateUnwrapped
    /\ ~Echoed
    /\ RepairedCandidate = Raised
    /\ candidate' = Unwrapped
    /\ best_event_id' = _select_best_llm_event_id(main_output)
    /\ repaired' = Raised
    /\ pending_exc' = Exc("TypeError", "unhashable type: 'list'")
    /\ mpc' = "except"
    /\ UNCHANGED <<main_output, llm_ok>>

\* Line 654 raises
SynthesisInvalid ==
    /\ CandidateUnwrapped
    /\ ~Echoed
    /\ RepairedCandidate # Raised
    /\ ~_validate_llm_synthesis(RepairedCandidate, has_jsonschema)
    /\ candidate' = RepairedCandidate
    /\ best_event_id' = _select_best_llm_event_id(main_output)
    /\ repaired' = RepairedCandidate
    /\ pending_exc' = Exc("ValueError", "llm_synthesis validation failed")
    /\ mpc' = "except"
    /\ UNCHANGED <<main_output, llm_ok>>

\* Lines 653-656
SynthesisAccepted ==
    /\ CandidateUnwrapped
    /\ ~Echoed
    /\ RepairedCandidate # Raised
    /\ _validate_llm_synthesis(RepairedCandidate, has_jsonschema)
    /\ candidate' = RepairedCandidate
    /\ best_event_id' = _select_best_llm_event_id(main_output)
    /\ repaired' = RepairedCandidate
    /\ main_output' = Put(main_output, "llm_synthesis", RepairedCandidate)
    /\ llm_ok' = TRUE
    /\ mpc' = "shape"
    /\ UNCHANGED pending_exc

\* Lines 657-680: the except clause
LlmFallback ==
    /\ mpc = "except"
    /\ main_output' = Put(main_output, "llm_synthesis",
                          _llm_fallback(pending_exc, candidate_keys))
    /\ pending_exc' = NoExc
    /\ mpc' = "shape"
    /\ UNCHANGED <<det_output, stages, calls, llm_ok, prompt_len,
                   candidate_keys, exit_code, MainRepairLocals, MainFrame>>

\* Line 682
ApplyOutputMode ==
    /\ mpc = "shape"
    /\ main_output' = apply_output_mode(main_output, args.output_mode)
    /\ mpc' = "validate"
    /\ UNCHANGED <<det_output, stages, exit_code, MainLlmLocals,
                   MainRepairLocals, MainFrame>>

\* Lines 694-708
ValidateAndEmit ==
    /\ mpc = "validate"
    /\ exit_code' = IF args.validate /\ ~validate_output(main_output)
                    THEN 2 ELSE 0
    /\ mpc' = "done"
    /\ UNCHANGED <<main_output, det_output, stages, MainLlmLocals,
                   MainRepairLocals, MainFrame>>

NextMain ==
    \/ LoadAndNormalize \/ DetectPhases \/ BuildSegments \/ ExtractMarkers
    \/ SkipRules \/ LoadRulepackFails \/ RunRules \/ BuildOutput
    \/ LlmBuildPack
    \/ FactsCallRaises \/ FactsCallNonObject \/ FactsRepaired
    \/ FactsFallback
    \/ SynthesisCallRaises \/ SynthesisCallNonObject \/ SynthesisCallReturns
    \/ SynthesisEchoed \/ SynthesisRepairRaises \/ SynthesisInvalid
    \/ SynthesisAccepted
    \/ LlmFallback \/ ApplyOutputMode \/ ValidateAndEmit

SpecMain == InitMain /\ [][NextMain]_vars

-----------------------------------------------------------------------------
(* C13: a payload holding only executive_summary                           *)

\* The synthesis reply is an object whose only key is executive_summary, a
\* non-empty string
OnlySummaryReply ==
    /\ IsObj(llm_replies.synthesis)
    /\ DOMAIN llm_replies.synthesis.o = {"executive_summary"}
    /\ IsStr(llm_replies.synthesis.o["executive_summary"])
    /\ Len(llm_replies.synthesis.o["executive_summary"].s) >= 1

\* The synthesis call returned and its reply has been processed
SynthesisProcessed ==
    /\ mpc \in {"except", "shape", "validate", "done"}
    /\ calls # <<>>
    /\ calls[Len(calls)] = "synthesis"
    /\ IsObj(llm_replies.synthesis)

\* The repaired payload of a summary-only reply
DefaultsFilled ==
    JObj([overall_confidence |-> JNum(20),
          executive_summary |-> llm_replies.synthesis.o["executive_summary"],
          root_cause_hypotheses |-> JList(<<>>),
          recommended_next_actions |-> JList(<<>>),
          missing_evidence |-> JList(<<>>)])

\* The pipeline emitted the repaired summary-only payload, which validates
\* and has no errors entry
SummaryOnlyEmitted ==
    /\ mpc # "except"
    /\ llm_ok
    /\ repaired = DefaultsFilled
    /\ _validate_llm_synthesis(repaired, has_jsonschema)
    /\ main_output.llm_synthesis = DefaultsFilled
    /\ "errors" \notin DOMAIN main_output.llm_synthesis.o

\* C13 as stated: every payload holding only a non-empty executive_summary is
\* repaired to the defaults (overall_confidence 0.2 and three empty lists)
\* with the summary unchanged, passes _validate_llm_synthesis and is emitted
\* without an errors entry.  Violated by a summary longer than 2000
\* characters when the jsonschema package validates.
SummaryOnlyRepairedAnyLength ==
    (SynthesisProcessed /\ OnlySummaryReply) => SummaryOnlyEmitted

\* C13: a payload holding only an executive_summary of 1 to 2000 characters
\* is repaired to overall_confidence 0.2, root_cause_hypotheses [],
\* recommended_next_actions [] and missing_evidence [] with the summary
\* unchanged, passes _validate_llm_synthesis, and the pipeline emits it
\* without an errors entry.
SummaryOnlyRepaired ==
    (/\ SynthesisProcessed
     /\ OnlySummaryReply
     /\ Len(llm_replies.synthesis.o["executive_summary"].s) <= SummaryMaxLen)
    => SummaryOnlyEmitted

SummaryOnlyRepairedWitness ==
    /\ mpc = "done"
    /\ exit_code = 0
    /\ has_jsonschema
    /\ calls = <<"facts", "synthesis">>
    /\ OnlySummaryReply
    /\ llm_replies.synthesis.o["executive_summary"] = JStr(<<"a">>)
    /\ main_output.llm_synthesis = DefaultsFilled

-----------------------------------------------------------------------------
(* C14: an LLM failure is recovered locally                                *)

\* The facts call of a two-pass run raises or returns a non-object
FactsStepFails == args.llm_two_pass /\ ~IsObj(llm_replies.facts)

\* The synthesis reply, unwrapped and repaired as lines 648-653 do
ReplyUnwrapped ==
    IF IsObj(Get(llm_replies.synthesis, "llm_synthesis"))
    THEN Get(llm_replies.synthesis, "llm_synthesis")
    ELSE llm_replies.synthesis

ReplyEchoes ==
    /\ IsObj(llm_replies.synthesis)
    /\ \/ "evidence_pack" \in DOMAIN ReplyUnwrapped.o
       \/ "selected_events" \in DOMAIN ReplyUnwrapped.o

ReplyRepaired ==
    repair_llm_synthesis(ReplyUnwrapped, _select_best_llm_event_id(main_output))

\* The synthesis call raises, returns a non-object, or returns an object
\* whose repair raises or whose repaired form fails validation
SynthesisStepFails ==
    \/ ~IsObj(llm_replies.synthesis)
    \/ /\ ~ReplyEchoes
       /\ \/ ReplyRepaired = Raised
          \/ ~_validate_llm_synthesis(ReplyRepaired, has_jsonschema)

ModelStepFails == args.llm /\ (FactsStepFails \/ SynthesisStepFails)

ErrorEntryKeys ==
    {"type", "message", "detail", "model", "timeout_s", "prompt_len",
     "candidate_keys"}

IsFallbackPayload(p) ==
    /\ IsObj(p)
    /\ DOMAIN p.o = SynthesisRequired \cup {"errors"}
    /\ p.o["overall_confidence"] = JNum(0)
    /\ p.o["executive_summary"] = JStr(<<"LLM synthesis failed; see errors.">>)
    /\ p.o["root_cause_hypotheses"] = JList(<<>>)
    /\ p.o["recommended_next_actions"] = JList(<<>>)
    /\ p.o["missing_evidence"] = JList(<<>>)
    /\ IsList(p.o["errors"])
    /\ Len(p.o["errors"].l) = 1
    /\ DOMAIN p.o["errors"].l[1].o = ErrorEntryKeys

DeterministicKeys ==
    {"schema_version", "normalization", "events", "boot_timeline", "signals"}

\* What the deterministic stages produced, in the shape the run emits it
DeterministicShaped ==
    IF mpc = "shape" THEN det_output
    ELSE apply_output_mode(det_output, args.output_mode)

DeterministicKept ==
    \A k \in DeterministicKeys : main_output[k] = DeterministicShaped[k]

\* C14: with LLM enabled, whenever the model step fails (generate raises,
\* the reply is not an object, repair raises, or validation fails after
\* repair) the run exits 0, output.llm_synthesis is the fixed fallback
\* payload with exactly one errors entry of seven fields, and
\* schema_version, normalization, events, boot_timeline and signals are
\* what the deterministic stages produced.
LlmFailureRecovered ==
    (mpc \in {"shape", "validate", "done"} /\ ModelStepFails)
    => /\ ~llm_ok
       /\ IsFallbackPayload(main_output.llm_synthesis)
       /\ DeterministicKept
       /\ mpc = "done" => exit_code = 0

LlmFailureRecoveredWitness ==
    /\ mpc = "done"
    /\ exit_code = 0
    /\ args.output_mode = "full"
    /\ args.validate
    /\ llm_replies.synthesis = Exc("RuntimeError", "Ollama request timed out")
    /\ main_output.events # <<>>
    /\ main_output.events = det_output.events
    /\ main_output.llm_synthesis.o["errors"].l[1].o["type"]
           = JStr(<<"RuntimeError">>)

-----------------------------------------------------------------------------
(* C15: echo rejection                                                     *)

\* The object main inspects (the reply, or the object under its
\* llm_synthesis key) has evidence_pack or selected_events among its keys
EchoReturned ==
    /\ mpc \in {"except", "shape", "validate", "done"}
    /\ calls # <<>>
    /\ calls[Len(calls)] = "synthesis"
    /\ ReplyEchoes

EchoDetail ==
    JStr(<<"LLM echoed input evidence pack instead of producing llm_synthesis">>)

\* Lines 651-652 on the inspected object: when it has evidence_pack or
\* selected_events among its keys it is neither repaired nor accepted, and
\* the fallback payload names the echoed input
EchoRejected ==
    EchoReturned =>
        /\ ~llm_ok
        /\ repaired # repair_llm_synthesis(ReplyUnwrapped, best_event_id)
        /\ mpc = "except" =>
              /\ pending_exc.exc = "ValueError"
              /\ "llm_synthesis" \notin DOMAIN main_output
        /\ mpc # "except" =>
              /\ IsFallbackPayload(main_output.llm_synthesis)
              /\ main_output.llm_synthesis.o["errors"].l[1].o["detail"]
                     = EchoDetail
              /\ main_output.llm_synthesis.o["errors"].l[1].o["type"]
                     = JStr(<<"ValueError">>)
        /\ mpc = "done" => exit_code = 0

EchoRejectedReached ==
    /\ mpc = "done"
    /\ exit_code = 0
    /\ IsObj(llm_replies.synthesis)
    /\ "evidence_pack" \in DOMAIN llm_replies.synthesis.o
    /\ calls = <<"synthesis">>
    /\ candidate_keys = DOMAIN llm_replies.synthesis.o
    /\ main_output.llm_synthesis.o["errors"].l[1].o["detail"] = EchoDetail

\* The reply itself has evidence_pack or selected_events among its
\* top-level keys
TopLevelEcho ==
    /\ IsObj(llm_replies.synthesis)
    /\ \/ "evidence_pack" \in DOMAIN llm_replies.synthesis.o
       \/ "selected_events" \in DOMAIN llm_replies.synthesis.o

\* C15: when the model's JSON object has evidence_pack or selected_events
\* among its top-level keys, the pipeline does not repair or accept it:
\* output.llm_synthesis is the fixed fallback payload whose errors[0].detail
\* mentions the echoed input, and the run exits 0.
TopLevelEchoRejected ==
    (/\ mpc = "done"
     /\ calls # <<>>
     /\ calls[Len(calls)] = "synthesis"
     /\ TopLevelEcho)
    => /\ ~llm_ok
       /\ IsFallbackPayload(main_output.llm_synthesis)
       /\ main_output.llm_synthesis.o["errors"].l[1].o["detail"] = EchoDetail
       /\ exit_code = 0

-----------------------------------------------------------------------------
(* C19: a malformed rulepack                                               *)

PipelineStages ==
    {"normalization", "phase_detection", "segment_building",
     "marker_extraction", "rule_evaluation"}

\* C19: a malformed rulepack is a fatal input error that aborts the run
\* before any pipeline stage (normalization, phase detection, segment
\* building, marker extraction, rule evaluation) has run.
MalformedRulepackAbortsFirst ==
    (~args.no_rules /\ args.rulepack = "malformed")
    => /\ \A i \in DOMAIN stages : stages[i] \notin PipelineStages
       /\ mpc \notin {"output", "llm", "shape", "validate", "done"}

\* What main does: the run is aborted by the uncaught ValueError before
\* rule evaluation and before any output, after the four earlier stages
MalformedRulepackAbortsBeforeRules ==
    (~args.no_rules /\ args.rulepack = "malformed")
    => /\ \A i \in DOMAIN stages : stages[i] # "rule_evaluation"
       /\ mpc \notin {"output", "llm", "shape", "validate", "done"}
       /\ mpc = "aborted" =>
             /\ exit_code = "uncaught"
             /\ main_output = NoOutput
             /\ stages = <<"normalization", "phase_detection",
                           "segment_building", "marker_extraction">>

-----------------------------------------------------------------------------
(* C20: two-pass call ordering                                             *)

TwoPassRun == args.llm /\ args.llm_two_pass

LlmBlockLeft == mpc \in {"shape", "validate", "done"}

IsFactsFallback(p) ==
    /\ IsObj(p)
    /\ DOMAIN p.o = FactsRequired \cup {"errors"}
    /\ p.o["overall_grounding_confidence"] = JNum(0)
    /\ p.o["facts"] = JList(<<>>)
    /\ IsList(p.o["errors"])
    /\ Len(p.o["errors"].l) = 1
    /\ DOMAIN p.o["errors"].l[1].o = ErrorEntryKeys

FactsReplyInvalid ==
    /\ IsObj(llm_replies.facts)
    /\ ~_validate_llm_facts(repair_llm_facts(llm_replies.facts),
                            has_jsonschema)

SynthesisReplyAcceptable ==
    /\ IsObj(llm_replies.synthesis)
    /\ ~ReplyEchoes
    /\ ReplyRepaired # Raised
    /\ _validate_llm_synthesis(ReplyRepaired, has_jsonschema)

-----------------------------------------------------------------------------
(* signals/stalls.py: detect_stalls                                        *)

\* Number of markers at most
MaxMarkers == 3

MarkerLines == {0, 1000, 5000, 6000, 12000}

MarkerKinds == {"progress_code", "postcode"}

MarkerValues ==
    {[idx |-> i, kind |-> k, value |-> "0x10"] :
        i \in MarkerLines, k \in MarkerKinds}

MarkerLists == UNION {[1..n -> MarkerValues] : n \in 0..MaxMarkers}

PhaseSpan(phase, start_line, end_line) ==
    [phase |-> phase, start_line |-> start_line, end_line |-> end_line,
     confidence |-> 80]

\* No span; one span; two spans with uncovered lines between them; two
\* overlapping spans; two separate spans of one phase
PhaseSpanLists ==
    {<<>>,
     <<PhaseSpan("SEC", 0, 6000)>>,
     <<PhaseSpan("SEC", 0, 1000), PhaseSpan("PEI", 5000, 12000)>>,
     <<PhaseSpan("SEC", 0, 6000), PhaseSpan("DXE", 6000, 12000)>>,
     <<PhaseSpan("SEC", 0, 0), PhaseSpan("SEC", 6000, 6000)>>}

GapLines == {1000, 5000}

_phase_for_line(line_no, phases) ==
    LET within == {i \in DOMAIN phases :
                      /\ phases[i].start_line <= line_no
                      /\ line_no <= phases[i].end_line}
    IN  IF within = {} THEN "unknown"
        ELSE phases[CHOOSE i \in within : \A j \in within : i <= j].phase

\* sorted(markers, key=lambda marker: marker["idx"]): a stable sort
RECURSIVE InsertByIdx(_, _)
InsertByIdx(sorted, marker) ==
    IF sorted = <<>> THEN <<marker>>
    ELSE IF sorted[Len(sorted)].idx <= marker.idx
    THEN Append(sorted, marker)
    ELSE Append(InsertByIdx(SubSeq(sorted, 1, Len(sorted) - 1), marker),
                sorted[Len(sorted)])

RECURSIVE SortedByIdx(_)
SortedByIdx(ms) ==
    IF ms = <<>> THEN <<>>
    ELSE InsertByIdx(SortedByIdx(SubSeq(ms, 1, Len(ms) - 1)), ms[Len(ms)])

\* The dict appended for the pair (prev, current)
StallSignal(prev, current, phase) ==
    [phase |-> phase,
     start_line |-> prev.idx,
     end_line |-> current.idx,
     gap_lines |-> current.idx - prev.idx,
     last_milestone |->
        [kind |-> prev.kind, line |-> prev.idx, value |-> prev.value],
     confidence |-> 60]

\* The pair stalls already when its gap equals gap_lines
PairStallsAtThreshold(prev, current, phases, gap) ==
    /\ _phase_for_line(prev.idx, phases)
           = _phase_for_line(current.idx, phases)
    /\ ~(current.idx - prev.idx < gap)

\* The pair passes both `continue` tests of the loop
PairStalls(prev, current, phases, gap) ==
    /\ _phase_for_line(prev.idx, phases)
           = _phase_for_line(current.idx, phases)
    /\ ~(current.idx - prev.idx <= gap)

\* The loop over zip(ordered_markers, ordered_markers[1:]), from pair i on
RECURSIVE StallsFrom(_, _, _, _)
StallsFrom(ordered_markers, i, phases, gap) ==
    IF i >= Len(ordered_markers) THEN <<>>
    ELSE LET prev == ordered_markers[i]
             current == ordered_markers[i + 1]
             rest == StallsFrom(ordered_markers, i + 1, phases, gap)
         IN  IF PairStalls(prev, current, phases, gap)
             THEN <<StallSignal(prev, current,
                                _phase_for_line(prev.idx, phases))>> \o rest
             ELSE rest

detect_stalls(ms, phases, gap) ==
    IF Len(ms) < 2 THEN <<>>
    ELSE StallsFrom(SortedByIdx(ms), 1, phases, gap)

InitStalls ==
    /\ IdlePhases /\ IdleRules /\ IdlePack /\ IdleRepair
    /\ IdleMain /\ IdleSelect /\ IdleShape /\ IdleEnrich
    /\ markers \in MarkerLists
    /\ phase_spans \in PhaseSpanLists
    /\ gap_lines \in GapLines
    /\ stalls = <<>>
    /\ spc = "start"

StallFrame == <<phaseVars, rulesVars, packVars, repairVars, mainVars,
                selectVars, shapeVars, enrichVars, markers, phase_spans,
                gap_lines>>

\* Lines 39-40
DetectStallsFewMarkers ==
    /\ spc = "start"
    /\ Len(markers) < 2
    /\ stalls' = <<>>
    /\ spc' = "done"
    /\ UNCHANGED StallFrame

\* Lines 42-69
DetectStalls ==
    /\ spc = "start"
    /\ Len(markers) >= 2
    /\ stalls' = detect_stalls(markers, phase_spans, gap_lines)
    /\ spc' = "done"
    /\ UNCHANGED StallFrame

NextStalls == DetectStallsFewMarkers \/ DetectStalls

SpecStalls == InitStalls /\ [][NextStalls]_vars

\* Positions i of the sorted markers whose pair (i, i + 1) lies in one phase
\* bucket with an index gap above gap_lines
StallingPairs ==
    LET om == SortedByIdx(markers)
    IN  {i \in 1..(Len(om) - 1) :
            /\ _phase_for_line(om[i].idx, phase_spans)
                   = _phase_for_line(om[i + 1].idx, phase_spans)
            /\ om[i + 1].idx - om[i].idx > gap_lines}

\* The k-th smallest element of a set of numbers
RECURSIVE KthOf(_, _)
KthOf(S, k) ==
    LET least == CHOOSE x \in S : \A y \in S : x <= y
    IN  IF k = 1 THEN least ELSE KthOf(S \ {least}, k - 1)

\* C16: with the markers sorted by idx, the stalls are, in order, those of
\* the adjacent pairs that lie in one phase bucket (lines outside every span
\* form the bucket "unknown") with an index gap strictly greater than
\* gap_lines, and no others; each stall has start_line and
\* last_milestone.line equal to the earlier marker's idx, end_line equal to
\* the later marker's idx, gap_lines equal to their difference and
\* confidence 0.6.
StallsExactlyForGaps ==
    spc = "done" =>
        LET om == SortedByIdx(markers)
        IN  /\ Len(stalls) = Cardinality(StallingPairs)
            /\ \A k \in DOMAIN stalls :
                   LET i == KthOf(StallingPairs, k)
                   IN  /\ stalls[k].start_line = om[i].idx
                       /\ stalls[k].last_milestone.line = om[i].idx
                       /\ stalls[k].end_line = om[i + 1].idx
                       /\ stalls[k].gap_lines = om[i + 1].idx - om[i].idx
                       /\ stalls[k].gap_lines > gap_lines
                       /\ stalls[k].confidence = 60
                       /\ stalls[k].phase
                              = _phase_for_line(om[i].idx, phase_spans)
                       /\ stalls[k].phase
                              = _phase_for_line(om[i + 1].idx, phase_spans)

\* Two markers 6000 lines apart in one phase with gap_lines 5000 give one
\* stall with gap_lines 6000
StallsExactlyForGapsWitness ==
    /\ spc = "done"
    /\ Len(markers) = 2
    /\ markers[1].idx = 6000 /\ markers[2].idx = 0
    /\ phase_spans = <<PhaseSpan("SEC", 0, 6000)>>
    /\ gap_lines = 5000
    /\ Len(stalls) = 1
    /\ stalls[1].gap_lines = 6000
    /\ stalls[1].phase = "SEC"

-----------------------------------------------------------------------------
(* cli.py: _select_boot_blocking_event_id on its own                       *)

\* Number of events at most
MaxSelEvents == 3

SelShape(severity, confidence, phase, start, boot_blocking) ==
    [severity |-> severity, confidence |-> confidence,
     boot_blocking |-> boot_blocking,
     where |-> [phase |-> phase,
                line_range |-> [start |-> start, end |-> start]]]

\* Three blocking events tied at score 114 in three phases, a fourth tied
\* one with an upper-case severity, lower-scored blocking events, a phase
\* outside the penalty table, an event without a phase, and two events that
\* are not blocking (one of them with the highest score of all)
SelShapes ==
    {SelShape("fatal", 70, "SEC", 2, TRUE),
     SelShape("fatal", 80, "PEI", 1, TRUE),
     SelShape("fatal", 90, "DXE", 1, TRUE),
     SelShape("FATAL", 70, "SEC", 3, TRUE),
     SelShape("fatal", 90, "BDS", 3, TRUE),
     SelShape("high", 90, "unknown", 1, TRUE),
     SelShape("low", 90, "RT", 0, TRUE),
     [severity |-> "info", confidence |-> 50, boot_blocking |-> TRUE,
      where |-> [line_range |-> [start |-> 2, end |-> 2]]],
     SelShape("fatal", 90, "SEC", 1, FALSE),
     SelShape("medium", 55, "PEI", 1, FALSE)}

SelEventLists ==
    { [i \in DOMAIN shapes |-> [event_id |-> EventIdText[i]] @@ shapes[i]] :
        shapes \in SeqsOf(SelShapes, 0, MaxSelEvents) }

InitSelect ==
    /\ IdlePhases /\ IdleRules /\ IdlePack /\ IdleRepair
    /\ IdleMain /\ IdleStalls /\ IdleShape /\ IdleEnrich
    /\ sel_events \in SelEventLists
    /\ blocking_id = "None"
    /\ bpc = "start"

SelectFrame == <<phaseVars, rulesVars, packVars, repairVars, mainVars,
                 stallVars, shapeVars, enrichVars, sel_events>>

\* Lines 173-175
SelectNoBlocking ==
    /\ bpc = "start"
    /\ SelectSeq(sel_events, IsBlocking) = <<>>
    /\ blocking_id' = "None"
    /\ bpc' = "done"
    /\ UNCHANGED SelectFrame

\* Lines 177-184
SelectBlocking ==
    /\ bpc = "start"
    /\ SelectSeq(sel_events, IsBlocking) # <<>>
    /\ blocking_id' = _select_boot_blocking_event_id(sel_events)
    /\ bpc' = "done"
    /\ UNCHANGED SelectFrame

NextSelect == SelectNoBlocking \/ SelectBlocking

SpecSelect == InitSelect /\ [][NextSelect]_vars

\* severityScore, by the table of the claim (case-insensitive)
SeverityScoreOf(event) ==
    CASE StrLower(event.severity) = "fatal" -> 100
      [] StrLower(event.severity) = "high" -> 60
      [] StrLower(event.severity) = "medium" -> 30
      [] StrLower(event.severity) = "low" -> 10
      [] StrLower(event.severity) = "info" -> 1
      [] OTHER -> 0

\* phasePenalty, by the table of the claim
PhasePenaltyOf(event) ==
    IF "phase" \notin DOMAIN event.where THEN 0
    ELSE CASE event.where.phase = "SEC" -> 0
           [] event.where.phase = "PEI" -> 2
           [] event.where.phase = "DXE" -> 4
           [] event.where.phase = "BDS" -> 6
           [] OTHER -> 0

\* severityScore + round(confidence * 20) - phasePenalty, the confidence
\* being in hundredths
BlockingScoreOf(event) ==
    SeverityScoreOf(event) + ((event.confidence * 20 + 50) \div 100)
        - PhasePenaltyOf(event)

BlockingPositions == {i \in DOMAIN sel_events : sel_events[i].boot_blocking}

\* C17: _select_boot_blocking_event_id returns None when no event has
\* boot_blocking true; otherwise it returns the id of a boot_blocking event
\* that maximises severityScore + round(confidence*20) - phasePenalty and,
\* among the events with the maximum score, has the smallest
\* line_range.start.
BlockingSelection ==
    bpc = "done" =>
        IF BlockingPositions = {} THEN blocking_id = "None"
        ELSE \E i \in BlockingPositions :
                /\ blocking_id = sel_events[i].event_id
                /\ \A j \in BlockingPositions :
                       /\ BlockingScoreOf(sel_events[j])
                              <= BlockingScoreOf(sel_events[i])
                       /\ BlockingScoreOf(sel_events[j])
                              = BlockingScoreOf(sel_events[i])
                          => sel_events[i].where.line_range.start
                                 <= sel_events[j].where.line_range.start

\* Three blocking events tied on the score: the one with the smallest start
\* wins although it is last, and a higher-scored event that is not blocking
\* is passed over
BlockingSelectionWitness ==
    /\ bpc = "done"
    /\ Len(sel_events) = 3
    /\ sel_events[1] = [event_id |-> "evt-1"]
                           @@ SelShape("fatal", 90, "SEC", 1, FALSE)
    /\ sel_events[2] = [event_id |-> "evt-2"]
                           @@ SelShape("fatal", 70, "SEC", 2, TRUE)
    /\ sel_events[3] = [event_id |-> "evt-3"]
                           @@ SelShape("fatal", 80, "PEI", 1, TRUE)
    /\ blocking_id = "evt-3"

-----------------------------------------------------------------------------
(* output.py: apply_output_mode on its own                                 *)

\* Number of events at most
MaxShapeEvents == 2

\* An event as run_rules builds it around the hit line
ShapeEvent(n, hit, context_lines, include_lines) ==
    [event_id |-> EventIdText[n],
     severity |-> "high",
     confidence |-> 50,
     boot_blocking |-> FALSE,
     occurrences |-> 1,
     where |-> Where(hit, "PEI"),
     evidence |-> _event_evidence(LogText, hit, "seg-1", context_lines,
                                  include_lines)]

\* Outputs of runs over the log LogText: the hit lines of the events, and
\* the --context-lines and --no-evidence options of the run
ShapeOutputs ==
    {[schema_version |-> "0.1.0",
      normalization |-> [line_count |-> Len(LogText), empty_line_count |-> 0],
      events |-> [n \in DOMAIN hits |->
                     ShapeEvent(n, hits[n], context_lines, include_lines)],
      llm_enabled |-> llm,
      boot_timeline |-> [segments |-> <<>>, boot_outcome |-> "unknown",
                         boot_blocking_event_id |-> "None"],
      signals |-> [stalls |-> <<>>]] :
        hits \in SeqsOf(DOMAIN LogText, 0, MaxShapeEvents),
        context_lines \in 0..2,
        include_lines \in BOOLEAN,
        llm \in BOOLEAN}

_OUTPUT_MODES == {"full", "slim", "tiny"}

InitShape ==
    /\ IdlePhases /\ IdleRules /\ IdlePack /\ IdleRepair
    /\ IdleMain /\ IdleStalls /\ IdleSelect /\ IdleEnrich
    /\ shape_in \in ShapeOutputs
    /\ shape_arg = shape_in
    /\ out_mode \in _OUTPUT_MODES
    /\ shaped = NoOutput
    /\ opc = "start"

ShapeFrame == <<phaseVars, rulesVars, packVars, repairVars, mainVars,
                stallVars, selectVars, enrichVars, shape_arg, out_mode>>

\* Lines 45-47: a deep copy is returned and the argument is left alone
ShapeFull ==
    /\ opc = "start"
    /\ out_mode = "full"
    /\ shaped' = apply_output_mode(shape_in, out_mode)
    /\ shape_in' = shape_in
    /\ opc' = "done"
    /\ UNCHANGED ShapeFrame

\* Lines 45, 49-89: the deep copy is transformed and the argument is left
\* alone
ShapeSlimOrTiny ==
    /\ opc = "start"
    /\ out_mode # "full"
    /\ shaped' = apply_output_mode(shape_in, out_mode)
    /\ shape_in' = shape_in
    /\ opc' = "done"
    /\ UNCHANGED ShapeFrame

NextShape == ShapeFull \/ ShapeSlimOrTiny

SpecShape == InitShape /\ [][NextShape]_vars

\* f restricted to its keys other than key
Without(f, key) == [k \in (DOMAIN f) \ {key} |-> f[k]]

\* Everything but the evidence lines is as in the argument
OnlyLinesTouched ==
    /\ Without(shaped, "events") = Without(shape_arg, "events")
    /\ Len(shaped.events) = Len(shape_arg.events)
    /\ \A i \in DOMAIN shape_arg.events :
           /\ Without(shaped.events[i], "evidence")
                  = Without(shape_arg.events[i], "evidence")
           /\ Len(shaped.events[i].evidence)
                  = Len(shape_arg.events[i].evidence)
           /\ \A j \in DOMAIN shape_arg.events[i].evidence :
                  Without(shaped.events[i].evidence[j], "lines")
                      = Without(shape_arg.events[i].evidence[j], "lines")

\* Each window that has lines keeps exactly its entry of the hit line
SlimKeepsHitLine ==
    \A i \in DOMAIN shape_arg.events :
        \A j \in DOMAIN shape_arg.events[i].evidence :
            LET before == shape_arg.events[i].evidence[j]
                after == shaped.events[i].evidence[j]
                hit == shape_arg.events[i].where.line_range.start
            IN  IF "lines" \in DOMAIN before
                THEN /\ "lines" \in DOMAIN after
                     /\ Len(after.lines) = 1
                     /\ after.lines[1].idx = hit
                     /\ \E n \in DOMAIN before.lines :
                            before.lines[n] = after.lines[1]
                ELSE "lines" \notin DOMAIN after

\* No window has lines, and ref, kind, start_line and end_line are retained
TinyDropsLines ==
    \A i \in DOMAIN shape_arg.events :
        \A j \in DOMAIN shape_arg.events[i].evidence :
            LET before == shape_arg.events[i].evidence[j]
                after == shaped.events[i].evidence[j]
            IN  /\ "lines" \notin DOMAIN after
                /\ after.ref = before.ref
                /\ after.kind = before.kind
                /\ after.start_line = before.start_line
                /\ after.end_line = before.end_line

\* C18: apply_output_mode in mode full returns an output equal to its
\* argument; in mode slim it reduces the lines of each evidence window to
\* the entry of the event's hit line (where.line_range.start); in mode tiny
\* it removes the lines key from every evidence entry and retains ref, kind,
\* start_line and end_line; in every mode all other fields are unchanged and
\* the argument is not mutated.
OutputShaping ==
    opc = "done" =>
        /\ shape_in = shape_arg
        /\ OnlyLinesTouched
        /\ out_mode = "full" => shaped = shape_arg
        /\ out_mode = "slim" => SlimKeepsHitLine
        /\ out_mode = "tiny" => TinyDropsLines

\* A window of three lines around hit line 2 is reduced to the hit line
OutputShapingWitness ==
    /\ opc = "done"
    /\ out_mode = "slim"
    /\ Len(shape_arg.events) = 2
    /\ shape_arg.events[1].where.line_range.start = 2
    /\ "lines" \in DOMAIN shape_arg.events[1].evidence[1]
    /\ Len(shape_arg.events[1].evidence[1].lines) = 3
    /\ shaped.events[1].evidence[1].lines
           = <<[idx |-> 2, text |-> "ASSERT fail"]>>

-----------------------------------------------------------------------------
(* C21: action completion by repair_llm_synthesis                          *)

\* An action object with a non-empty action string
HasNonEmptyAction(item) ==
    /\ IsObj(item)
    /\ IsStr(Get(item, "action"))
    /\ Get(item, "action").s # <<>>

ValidPriority(item) ==
    Get(item, "priority") \in {JStr(<<"P0">>), JStr(<<"P1">>), JStr(<<"P2">>)}

\* The item that came out for the action object item: its priority is the
\* valid one or P1, its expected_signal the given text (up to surrounding
\* blanks) or the fixed text, its supporting_event_ids the string ids given
\* or [best_event_id]
CompletedFrom(item, out) ==
    /\ IsObj(out)
    /\ out.o["priority"] =
           IF ValidPriority(item) THEN Get(item, "priority")
           ELSE JStr(<<"P1">>)
    /\ out.o["expected_signal"] =
           IF NonBlankText(item, "expected_signal")
           THEN JStr(Take(Strip(Get(item, "expected_signal").s),
                          ActionMaxLen))
           ELSE JStr(DefaultExpectedSignal)
    /\ out.o["supporting_event_ids"].l =
           IF StringIds(item) # <<>> THEN StringIds(item)
           ELSE <<JStr(best_event_id)>>

\* The run repaired a payload whose recommended_next_actions are all action
\* objects with a non-empty action string
ActionObjectsRepaired ==
    /\ qpc = "repaired"
    /\ kind = "synthesis"
    /\ InputList("recommended_next_actions") # <<>>
    /\ \A i \in DOMAIN InputList("recommended_next_actions") :
           HasNonEmptyAction(InputList("recommended_next_actions")[i])

\* C21: an action object with a non-empty action string but missing or
\* invalid priority, expected_signal or supporting_event_ids is kept by
\* repair_llm_synthesis, with priority P1, the fixed expected_signal and
\* supporting_event_ids [best_event_id] in place of what is missing or
\* invalid, and the valid fields preserved.
ActionsCompleted ==
    ActionObjectsRepaired =>
        /\ repaired # Raised
        /\ Len(OutputList("recommended_next_actions"))
               = Len(InputList("recommended_next_actions"))
        /\ \A i \in DOMAIN InputList("recommended_next_actions") :
               CompletedFrom(InputList("recommended_next_actions")[i],
                             OutputList("recommended_next_actions")[i])

\* What holds: when no priority is a list or an object, the entries with a
\* non-blank action text are kept in order and completed
ActionsCompletedWhenHashable ==
    (/\ ActionObjectsRepaired
     /\ \A i \in DOMAIN InputList("recommended_next_actions") :
            /\ Hashable(Get(InputList("recommended_next_actions")[i],
                            "priority"))
            /\ NonBlankText(InputList("recommended_next_actions")[i],
                            "action"))
    => /\ repaired # Raised
       /\ Len(OutputList("recommended_next_actions"))
              = Len(InputList("recommended_next_actions"))
       /\ \A i \in DOMAIN InputList("recommended_next_actions") :
              CompletedFrom(InputList("recommended_next_actions")[i],
                            OutputList("recommended_next_actions")[i])

-----------------------------------------------------------------------------
(* C22: rank-ordered selection                                             *)

\* rankScore: the explicit score field, else severityScore +
\* round(confidence * 20) (confidence in hundredths); plus 1000 if
\* boot_blocking
RankScoreOf(event) ==
    (IF "score" \in DOMAIN event THEN event.score
     ELSE (CASE event.severity = "fatal" -> 100
             [] event.severity = "high" -> 60
             [] event.severity = "medium" -> 30
             [] event.severity = "low" -> 10
             [] event.severity = "info" -> 1
             [] OTHER -> 0)
          + ((event.confidence * 20 + 50) \div 100))
    + (IF event.boot_blocking THEN 1000 ELSE 0)

\* a is ranked strictly above b: higher rankScore, or the same rankScore and
\* an earlier start line
RankedAbove(a, b) ==
    \/ RankScoreOf(a) > RankScoreOf(b)
    \/ /\ RankScoreOf(a) = RankScoreOf(b)
       /\ a.where.line_range.start < b.where.line_range.start

SelectedIds == {selected_events[i].event_id : i \in DOMAIN selected_events}

\* C22: when there are events, selected_events is at every point of
\* build_evidence_pack, after any amount of trimming, a non-empty prefix of
\* the ranking (descending rankScore, ties broken by earliest start line)
\* of length at most max(top_k, 1): it is listed in rank order, no event
\* left out is ranked above a selected one, and the highest-ranked event is
\* always in it.
SelectionIsRankPrefix ==
    (kpc \notin {"idle", "start"} /\ output.events # <<>>) =>
        /\ Len(selected_events) >= 1
        /\ Len(selected_events) <= Max(top_k, 1)
        /\ Cardinality(SelectedIds) = Len(selected_events)
        /\ \A i \in DOMAIN selected_events :
               /\ \E n \in DOMAIN output.events :
                      output.events[n].event_id = selected_events[i].event_id
               /\ \A j \in DOMAIN selected_events :
                      i < j => ~RankedAbove(InputEvent(selected_events[j].event_id),
                                            InputEvent(selected_events[i].event_id))
               /\ \A n \in DOMAIN output.events :
                      output.events[n].event_id \notin SelectedIds
                      => ~RankedAbove(output.events[n],
                                      InputEvent(selected_events[i].event_id))
        /\ \A n \in DOMAIN output.events :
               ~RankedAbove(output.events[n],
                            InputEvent(selected_events[1].event_id))

\* A finished build over three events in which the event with an explicit
\* score is ranked between a boot-blocking event and a high event, and
\* trimming has dropped the lowest-ranked of them
SelectionIsRankPrefixWitness ==
    /\ kpc = "done"
    /\ Len(output.events) = 3
    /\ top_k = 3
    /\ "score" \in DOMAIN output.events[1]
    /\ output.events[2].severity = "high"
    /\ output.events[3].boot_blocking
    /\ Len(selected_events) = 2
    /\ selected_events[1].event_id = "evt-3"
    /\ selected_events[2].event_id = "evt-1"

-----------------------------------------------------------------------------
(* C23: first hit and accumulation per phase                               *)

\* Lines on which some marker of the phase matches
LinesMatching(phase) ==
    {i \in DOMAIN plines : _line_hits_phase(plines[i], phase).matched}

\* Lines that the loop of detect_phases credits to the phase: those whose
\* first matching phase in _PHASE_ORDER it is
LinesCredited(phase) ==
    {i \in DOMAIN plines : PhasesUpdatedByLine(plines[i]) = <<phase>>}

RECURSIVE MatchesOver(_, _)
MatchesOver(L, phase) ==
    IF L = {} THEN 0
    ELSE LET i == CHOOSE x \in L : TRUE
         IN  _line_hits_phase(plines[i], phase).matches
                 + MatchesOver(L \ {i}, phase)

\* The record of the phase has the first of the lines L as start_line and
\* the matches and strong flag accumulated over L
HitsRecordedOver(phase, L) ==
    L # {} =>
        \E k \in DOMAIN phase_hits :
            /\ phase_hits[k].phase = phase
            /\ phase_hits[k].start_line = CHOOSE i \in L : \A j \in L : i <= j
            /\ phase_hits[k].matches = MatchesOver(L, phase)
            /\ phase_hits[k].strong
                   = (\E i \in L : _line_hits_phase(plines[i], phase).strong)
            /\ \E s \in DOMAIN spans :
                   /\ spans[s].phase = phase
                   /\ spans[s].start_line = phase_hits[k].start_line

\* C23: for each phase the start_line of its span is the smallest index of
\* a line on which any marker of that phase matches, also when that line
\* matches a marker of another phase as well, and its hit count and strong
\* flag accumulate over every line of the file that matches one of its
\* markers.
FirstHitPerPhase ==
    ppc = "done" =>
        \A p \in Range(_PHASE_ORDER) : HitsRecordedOver(p, LinesMatching(p))

\* What detect_phases does: a line counts only for the first phase of
\* _PHASE_ORDER that it matches
FirstHitPerCreditedPhase ==
    ppc = "done" =>
        \A p \in Range(_PHASE_ORDER) :
            /\ HitsRecordedOver(p, LinesCredited(p))
            /\ LinesCredited(p) = {} =>
                   \A s \in DOMAIN spans : spans[s].phase # p

-----------------------------------------------------------------------------
(* rules/engine.py: frame of a deduplicated match                          *)

\* The positions of the events that carry the stable key of the current match
EventsWithCurKey ==
    {i \in DOMAIN deduped_events :
        deduped_events[i].fingerprint.stable_key = CurKey}

\* The current (line, rule) pair is a match whose stable key an event has
IsRepeatMatch ==
    /\ InRuleLoop /\ PhaseGateOpen
    /\ PatternSearch(CurRule.pattern, CurText)
    /\ EventsWithCurKey # {}

\* The fields of an event other than where and occurrences
EventRest(event) ==
    [k \in (DOMAIN event) \ {"where", "occurrences"} |-> event[k]]

\* The fields of where other than other_lines
WhereRest(event) ==
    [k \in (DOMAIN event.where) \ {"other_lines"} |-> event.where[k]]

\* C24: frame of a deduplicated match in run_rules: when a match has the
\* stable key of an existing event, the step grows this event's occurrences
\* by 1 and appends the current line index to its where.other_lines; its
\* event_id, confidence, where.line_range, where.phase, extracted, rule_hits,
\* fingerprint, evidence and hit_text are unchanged, no evidence window is
\* added, the number of events is unchanged, and every other event is
\* unchanged.
DedupFrame ==
    [][IsRepeatMatch =>
          /\ Len(deduped_events') = Len(deduped_events)
          /\ Cardinality(EventsWithCurKey) = 1
          /\ \A i \in DOMAIN deduped_events :
                IF i \in EventsWithCurKey
                THEN /\ deduped_events'[i].occurrences
                           = deduped_events[i].occurrences + 1
                     /\ OtherLines(deduped_events'[i])
                           = Append(OtherLines(deduped_events[i]), rline)
                     /\ EventRest(deduped_events'[i])
                           = EventRest(deduped_events[i])
                     /\ WhereRest(deduped_events'[i])
                           = WhereRest(deduped_events[i])
                     /\ Len(deduped_events'[i].evidence)
                           = Len(deduped_events[i].evidence)
                ELSE deduped_events'[i] = deduped_events[i]]_vars

\* Witness of C24: a finished run with two events in which the first one
\* absorbed a repeat on a later line while the second one did not.
DedupFrameWitness ==
    /\ rpc = "done" /\ Len(deduped_events) = 2
    /\ deduped_events[1].occurrences = 2
    /\ Len(OtherLines(deduped_events[1])) = 1
    /\ OtherLines(deduped_events[1])[1] > deduped_events[1].where.line_range.start
    /\ deduped_events[2].occurrences = 1
    /\ OtherLines(deduped_events[2]) = <<>>

-----------------------------------------------------------------------------
(* rules/engine.py: phase gating and confidence                            *)

\* The rules of the run that carry the id of the rule hit of an event
CreatingRules(event) ==
    {r \in Range(rules) : r.id = event.rule_hits[1].rule_id}

\* The phase of the containing span of a line, or "None"
ContainingPhase(line_no) ==
    IF \E i \in DOMAIN rphases :
          rphases[i].start_line <= line_no /\ line_no <= rphases[i].end_line
    THEN rphases[CHOOSE i \in DOMAIN rphases :
                    /\ rphases[i].start_line <= line_no
                    /\ line_no <= rphases[i].end_line
                    /\ \A j \in 1..(i - 1) :
                          ~(rphases[j].start_line <= line_no
                            /\ line_no <= rphases[j].end_line)].phase
    ELSE "None"

\* Every match was made by a rule without required_phase or on a line whose
\* containing span has the required phase
MatchesGated ==
    \A k \in DOMAIN match_log :
        LET rule == rules[match_log[k].rule]
        IN  rule.required_phase # "None" =>
               ContainingPhase(match_log[k].line) = rule.required_phase

\* The confidence before rounding, in thousandths, that the rule gives
RawConfidence(rule) ==
    IF rule.required_phase = "None" THEN rule.base_confidence
    ELSE IF rule.base_confidence + 30 > 990 THEN 990
    ELSE rule.base_confidence + 30

\* C25 as stated: a rule with required_phase is attempted only on lines whose
\* containing phase span has that phase, and the confidence of a created
\* event is base_confidence when the rule has no required_phase and
\* base_confidence + 0.03 capped at 0.99 when required_phase is set and
\* satisfied.
PhaseGatingAndConfidence ==
    /\ MatchesGated
    /\ \A i \in DOMAIN deduped_events : \A rule \in CreatingRules(deduped_events[i]) :
          deduped_events[i].confidence * 10 = RawConfidence(rule)

\* C25 amended: a rule with required_phase is attempted only on lines whose
\* containing phase span has that phase, and the confidence of a created
\* event is the two-decimal rounding of base_confidence when the rule has no
\* required_phase and of base_confidence + 0.03 capped at 0.99 when
\* required_phase is set and satisfied, so the boost never yields a
\* confidence above 0.99.
PhaseGatingAndRoundedConfidence ==
    /\ MatchesGated
    /\ \A i \in DOMAIN deduped_events : \A rule \in CreatingRules(deduped_events[i]) :
          LET confidence == deduped_events[i].confidence
          IN  /\ confidence * 10 - 5 <= RawConfidence(rule)
              /\ RawConfidence(rule) < confidence * 10 + 5
              /\ rule.required_phase # "None" => confidence <= 99

\* Witness of C25: a finished run in which a rule with required_phase skipped
\* a line outside its phase and created, on a later line inside it, an event
\* whose boosted confidence is capped, next to an event whose confidence was
\* rounded.
PhaseGatingWitness ==
    /\ rpc = "done" /\ Len(rlines) >= 2
    /\ ContainingPhase(1) = "None" /\ PatternSearch("x", rlines[1])
    /\ \E i \in DOMAIN deduped_events :
          /\ deduped_events[i].rule_hits[1].rule_id = "r5"
          /\ deduped_events[i].where.line_range.start > 1
          /\ deduped_events[i].confidence = 99
    /\ \E i \in DOMAIN deduped_events :
          /\ deduped_events[i].rule_hits[1].rule_id = "r7"
          /\ deduped_events[i].confidence = 58

-----------------------------------------------------------------------------
(* rules/engine.py: memory.mrc derivation                                  *)

\* The extracted map of an event carries the derived spd_addr and slot
HasMrcFields(event) ==
    /\ {"spd_addr", "slot"} \subseteq DOMAIN event.extracted
    /\ event.extracted["spd_addr"] = <<"0x">> \o event.extracted["spd"]
    /\ event.extracted["slot"] =
          <<"MC">> \o event.extracted["mc"] \o <<"_C">> \o event.extracted["ch"]
          \o <<"_D">> \o event.extracted["dimm"]

\* The event comes from a memory.mrc rule whose match captured all four fields
IsMrcMatch(event) ==
    /\ event.category = <<"memory.mrc">>
    /\ {"mc", "ch", "dimm", "spd"} \subseteq DOMAIN event.extracted

\* C27: memory.mrc derivation in run_rules: for every match of a rule whose
\* category is memory.mrc, whatever its subcategory, where mc, ch, dimm and
\* spd are all present in the extracted fields, the event's extracted map
\* gets spd_addr = "0x" + spd and slot = "MC{mc}_C{ch}_D{dimm}".
MrcDerivation ==
    \A i \in DOMAIN deduped_events :
        IsMrcMatch(deduped_events[i]) => HasMrcFields(deduped_events[i])

\* What run_rules does: the derivation is made for the subcategory
\* spd_addr_zero only
MrcDerivationForSpdAddrZero ==
    \A i \in DOMAIN deduped_events :
        IsMrcMatch(deduped_events[i]) =>
           (HasMrcFields(deduped_events[i])
              <=> deduped_events[i].subcategory = "spd_addr_zero")

-----------------------------------------------------------------------------
(* rules/engine.py: order of where.other_lines                             *)

\* C28: for every event returned by run_rules, where.other_lines (when
\* present) has no duplicates, is strictly increasing, and contains only
\* line indices strictly greater than where.line_range.start, also when
\* several rules with the same category and severity match the same line.
OtherLinesStrictlyIncreasing ==
    rpc = "done" =>
        \A i \in DOMAIN deduped_events :
            LET other == OtherLines(deduped_events[i])
            IN  /\ \A j, k \in DOMAIN other : j < k => other[j] < other[k]
                /\ \A j \in DOMAIN other :
                      other[j] > deduped_events[i].where.line_range.start

\* What run_rules guarantees: other_lines never decreases and never goes
\* below the first line of the event
OtherLinesNonDecreasing ==
    rpc = "done" =>
        \A i \in DOMAIN deduped_events :
            LET other == OtherLines(deduped_events[i])
            IN  /\ \A j, k \in DOMAIN other : j < k => other[j] <= other[k]
                /\ \A j \in DOMAIN other :
                      other[j] >= deduped_events[i].where.line_range.start

-----------------------------------------------------------------------------
(* cli.py: the event that repair cites                                     *)

SynthesisLists ==
    {"root_cause_hypotheses", "recommended_next_actions", "missing_evidence"}

\* The supporting event ids of the items of a synthesis object
CitedIds(synth) ==
    IF ~IsObj(synth) THEN {}
    ELSE UNION { IF IsList(synth.o[k])
                 THEN UNION { IF IsObj(item)
                                 /\ IsList(Get(item, "supporting_event_ids"))
                              THEN {id.s : id \in
                                      {x \in Range(Get(item, "supporting_event_ids").l) :
                                          IsStr(x)}}
                              ELSE {} : item \in Range(synth.o[k].l) }
                 ELSE {} : k \in SynthesisLists \cap DOMAIN synth.o }

\* The ids that the accepted llm_synthesis cites and the reply did not
InsertedIds == CitedIds(main_output.llm_synthesis) \ CitedIds(ReplyUnwrapped)

OutputEventIds ==
    { <<main_output.events[i].event_id>> : i \in DOMAIN main_output.events }

\* C29: repair never cites an event that does not exist: every supporting
\* event id that the repair of main inserts into llm_synthesis is the
\* event_id of an event present in output.events, for every run including
\* one with zero events.
RepairCitesExistingEvents ==
    (mpc \in {"shape", "validate", "done"} /\ llm_ok) =>
        InsertedIds \subseteq OutputEventIds

\* What main guarantees: the inserted ids exist when the run has an event
RepairCitesExistingEventsIfAny ==
    (mpc \in {"shape", "validate", "done"} /\ llm_ok
       /\ main_output.events # <<>>) =>
        InsertedIds \subseteq OutputEventIds

-----------------------------------------------------------------------------
(* llm/evidence_pack.py: the input of build_evidence_pack                  *)

-----------------------------------------------------------------------------
(* signals/enrich_events.py: enrich_events                                 *)
(*                                                                         *)
(* A text is a sequence of words.  The log is given by its length and by   *)
(* the texts of the lines that differ from the filler line.                *)

\* Number of events at most
MaxEnrichEvents == 2

\* window of _find_preceding_marker
MarkerWindow == 2000

\* Lines before and after the hit that _event_context_text reads
ContextRadius == 5

\* str.upper() on the words that occur
WordUpper(word) ==
    CASE word = "watchdog" -> "WATCHDOG"
      [] word = "WatchDog" -> "WATCHDOG"
      [] word = "reset"    -> "RESET"
      [] word = "fault"    -> "FAULT"
      [] word = "timer"    -> "TIMER"
      [] word = "pcie"     -> "PCIE"
      [] word = "link"     -> "LINK"
      [] word = "boot"     -> "BOOT"
      [] word = "cpu"      -> "CPU"
      [] OTHER             -> word

\* The keywords of _SUBSYSTEM_KEYWORDS that are substrings of an upper-case
\* word
KeywordsIn(upper) ==
    CASE upper = "DDR4" -> {"DDR"}
      [] upper = "PCIE" -> {"PCIE"}
      [] OTHER          -> {}

\* "WATCHDOG" is a substring of the upper-case text
HasWatchdogUpper(text) ==
    \E i \in DOMAIN text : WordUpper(text[i]) = "WATCHDOG"

\* A subcategory of None, as str() gives it to the search
NoSubcategory == <<"None">>

\* _WATCHDOG_RE.search(str(value)): re.IGNORECASE matches the letters of
\* "watchdog" in either case
WatchdogSearch(text) ==
    \E i \in DOMAIN text : WordUpper(text[i]) = WordUpper("watchdog")

_SUBSYSTEM_KEYWORDS ==
    << [subsystem |-> "memory", tokens |-> {"MRC", "DDR", "DIMM", "SPD"}],
       [subsystem |-> "pcie",   tokens |-> {"PCIE"}],
       [subsystem |-> "nvme",   tokens |-> {"NVME"}],
       [subsystem |-> "sata",   tokens |-> {"SATA", "AHCI"}],
       [subsystem |-> "spi",    tokens |-> {"SPI"}],
       [subsystem |-> "usb",    tokens |-> {"USB"}] >>

\* _event_is_watchdog that also searches the hit text
_event_is_watchdogOrHitText(event) ==
    \/ WatchdogSearch(event.category)
    \/ WatchdogSearch(event.subcategory)
    \/ \E h \in DOMAIN event.rule_hits : HasWatchdogUpper(event.rule_hits[h].rule_id)
    \/ WatchdogSearch(event.hit_text)

_event_is_watchdog(event) ==
    \/ WatchdogSearch(event.category)
    \/ WatchdogSearch(event.subcategory)
    \/ \E h \in DOMAIN event.rule_hits : HasWatchdogUpper(event.rule_hits[h].rule_id)

NoMarker == [idx |-> NoLine]

\* max(candidates, key=idx): the first of the candidates with the largest idx
_find_preceding_marker(ms, line_no) ==
    LET candidates == {i \in DOMAIN ms :
                          /\ ms[i].idx <= line_no
                          /\ line_no - ms[i].idx <= MarkerWindow}
        maximal == {i \in candidates :
                       \A j \in candidates : ms[j].idx <= ms[i].idx}
    IN  IF candidates = {} THEN NoMarker
        ELSE ms[CHOOSE i \in maximal : \A j \in maximal : i <= j]

\* The log: 2500 lines, all "boot" but four
LogLen == 2500

LineText(idx) ==
    CASE idx = 2    -> <<"pcie", "link">>
      [] idx = 3    -> <<"watchdog", "reset">>
      [] idx = 20   -> <<"cpu", "fault">>
      [] idx = 2500 -> <<"DDR4", "fault">>
      [] OTHER      -> <<"boot">>

\* _event_context_text: the chunks scanned for an event
_event_context_text(event, line_no) ==
    LET start == Max(1, line_no - ContextRadius)
        end   == Min(LogLen, line_no + ContextRadius)
        first == event.evidence[1]
    IN  {event.hit_text}
        \cup (IF "lines" \in DOMAIN first
              THEN {first.lines[j].text : j \in DOMAIN first.lines} ELSE {})
        \cup {LineText(i) : i \in start..end}

\* _scan_text_for_subsystem: the first subsystem of the table one of whose
\* keywords is in the upper-case text, or "None"
_scan_text_for_subsystem(chunks) ==
    LET found == UNION { UNION { KeywordsIn(WordUpper(chunk[i])) :
                                   i \in DOMAIN chunk } : chunk \in chunks }
        hits  == {n \in DOMAIN _SUBSYSTEM_KEYWORDS :
                     _SUBSYSTEM_KEYWORDS[n].tokens \cap found # {}}
    IN  IF hits = {} THEN "None"
        ELSE _SUBSYSTEM_KEYWORDS[CHOOSE n \in hits : \A m \in hits : n <= m]
                 .subsystem

\* Lines 99-114: the extracted map of a target event after its enrichment
EnrichedExtracted(event, ms) ==
    LET line_no   == event.where.line_range.start
        marker    == _find_preceding_marker(ms, line_no)
        subsystem == _scan_text_for_subsystem(_event_context_text(event, line_no))
        code      == IF marker # NoMarker /\ marker.kind = "progress"
                     THEN [last_progress_code |-> marker.value] ELSE <<>>
        postcode  == IF marker # NoMarker /\ marker.kind = "postcode"
                     THEN [postcode_hex |-> marker.value] ELSE <<>>
        milestone == IF marker # NoMarker
                     THEN [last_milestone_line |-> marker.idx] ELSE <<>>
        suspected == IF subsystem # "None"
                     THEN [suspected_subsystem |-> <<subsystem>>] ELSE <<>>
    IN  suspected @@ milestone @@ postcode @@ code @@ event.extracted

\* Lines 87-89
IsTarget(event, blocking) ==
    _event_is_watchdog(event) \/ (blocking # "None" /\ event.event_id = blocking)

\* An event as run_rules returns it for a match on the line `start`
EnrichShape(category, subcategory, rule_id, severity, start, extracted) ==
    [category |-> category, subcategory |-> subcategory, severity |-> severity,
     confidence |-> 90, boot_blocking |-> (severity = "fatal"),
     where |-> [segment_id |-> "seg-1",
                line_range |-> [start |-> start, end |-> start]],
     extracted |-> extracted,
     rule_hits |-> << [rule_id |-> rule_id, weight |-> 1, match_confidence |-> 90] >>,
     occurrences |-> 1,
     evidence |-> << [ref |-> <<"log", "seg-1", start, start>>,
                      kind |-> "context_window",
                      start_line |-> start, end_line |-> start,
                      lines |-> << [idx |-> start, text |-> LineText(start)] >>] >>,
     hit_text |-> LineText(start)]

\* Events that are watchdog-related by category, by subcategory or by rule
\* id only, and events that are not (two of them fatal), on a line with the
\* word "watchdog", on a plain line and on the last line
EnrichShapes ==
    { EnrichShape(<<"WatchDog", "timer">>, NoSubcategory, <<"r1">>, "high", 20, <<>>),
      EnrichShape(<<"fault">>, <<"cpu", "watchdog">>, <<"r2">>, "high", 2500,
                  [module |-> <<"cpu">>]),
      EnrichShape(<<"fault">>, NoSubcategory, <<"cpu", "WatchDog", "r3">>, "high", 3,
                  [suspected_subsystem |-> <<"usb">>]),
      EnrichShape(<<"reset">>, NoSubcategory, <<"r4">>, "high", 3, [module |-> <<"cpu">>]),
      EnrichShape(<<"reset">>, NoSubcategory, <<"r4">>, "high", 2500, <<>>),
      EnrichShape(<<"fault">>, NoSubcategory, <<"r5">>, "fatal", 20, <<>>),
      EnrichShape(<<"fault">>, NoSubcategory, <<"r6">>, "fatal", 2500,
                  [module |-> <<"cpu">>]) }

EnrichEventLists ==
    { [i \in DOMAIN shapes |-> [event_id |-> EventIdText[i]] @@ shapes[i]] :
        shapes \in SeqsOf(EnrichShapes, 1, MaxEnrichEvents) }

EnrichMarker(idx, marker_kind, value) ==
    [idx |-> idx, kind |-> marker_kind, value |-> value]

\* Markers as extract_markers returns them, in line order: one on line 1,
\* one 2001 lines and one 2000 lines before the last line
EnrichMarkerLists ==
    LET m1 == EnrichMarker(1, "progress", <<"A0">>)
        m2 == EnrichMarker(499, "progress", <<"B1">>)
        m3 == EnrichMarker(500, "postcode", <<"0000A1B2">>)
    IN  { <<>>, <<m1>>, <<m2>>, <<m3>>, <<m1, m2>>, <<m1, m3>>, <<m2, m3>>,
          <<m1, m2, m3>> }

\* cli.py 531, 538-539: main passes the events of a non-empty run and the
\* boot-blocking id it selected
InitEnrich ==
    /\ IdlePhases /\ IdleRules /\ IdlePack /\ IdleRepair
    /\ IdleMain /\ IdleStalls /\ IdleSelect /\ IdleShape
    /\ en_events \in EnrichEventLists
    /\ en_markers \in EnrichMarkerLists
    /\ en_blocking = _select_boot_blocking_event_id(en_events)
    /\ en_idx = 1
    /\ epc = "run"

EnrichFrameVars == <<phaseVars, rulesVars, packVars, repairVars, mainVars,
                     stallVars, selectVars, shapeVars, en_markers, en_blocking>>

\* Lines 87-91: the event is no target
EnrichSkip ==
    /\ epc = "run" /\ en_idx <= Len(en_events)
    /\ ~IsTarget(en_events[en_idx], en_blocking)
    /\ en_idx' = en_idx + 1
    /\ UNCHANGED <<en_events, epc, EnrichFrameVars>>

\* Lines 93-114: a target event.  Every event of run_rules has an integer
\* where.line_range.start and an extracted dict, so lines 96-97 and 100-102
\* do not apply.
EnrichTarget ==
    /\ epc = "run" /\ en_idx <= Len(en_events)
    /\ IsTarget(en_events[en_idx], en_blocking)
    /\ en_events' = [en_events EXCEPT
                        ![en_idx].extracted = EnrichedExtracted(en_events[en_idx],
                                                                en_markers)]
    /\ en_idx' = en_idx + 1
    /\ UNCHANGED <<epc, EnrichFrameVars>>

\* The loop is over
EnrichReturn ==
    /\ epc = "run" /\ en_idx > Len(en_events)
    /\ epc' = "done"
    /\ UNCHANGED <<en_events, en_idx, EnrichFrameVars>>

NextEnrich == EnrichSkip \/ EnrichTarget \/ EnrichReturn

SpecEnrich == InitEnrich /\ [][NextEnrich]_vars

\* The text contains "watchdog" in some mix of cases
ContainsWatchdog(text) ==
    \E i \in DOMAIN text : text[i] \in {"watchdog", "WatchDog", "WATCHDOG"}

\* The claim's targets: watchdog-related events and the boot-blocking event
IsWatchdogRelated(event) ==
    \/ ContainsWatchdog(event.category)
    \/ ContainsWatchdog(event.subcategory)
    \/ \E h \in DOMAIN event.rule_hits : ContainsWatchdog(event.rule_hits[h].rule_id)

EnrichKeys ==
    {"last_progress_code", "postcode_hex", "last_milestone_line",
     "suspected_subsystem"}

AllButExtracted(event) ==
    [k \in (DOMAIN event) \ {"extracted"} |-> event[k]]

\* C26: frame of enrich_events: it modifies only the extracted map of events
\* that are watchdog-related (category, subcategory or a rule id containing
\* "watchdog", case-insensitive) or whose event_id equals the designated
\* boot-blocking event id; every other event, and every field other than
\* extracted of a target event, is left unchanged, and the only keys it may
\* add are last_progress_code, postcode_hex, last_milestone_line and
\* suspected_subsystem.
EnrichFrame ==
    [][epc = "run" =>
          /\ Len(en_events') = Len(en_events)
          /\ \A i \in DOMAIN en_events :
                LET before == en_events[i]
                    after  == en_events'[i]
                IN  /\ AllButExtracted(after) = AllButExtracted(before)
                    /\ (~IsWatchdogRelated(before) /\ before.event_id # en_blocking)
                          => DOMAIN after.extracted = DOMAIN before.extracted
                    /\ (DOMAIN after.extracted) \ (DOMAIN before.extracted)
                          \subseteq EnrichKeys
                    /\ \A k \in (DOMAIN before.extracted) \ EnrichKeys :
                          /\ k \in DOMAIN after.extracted
                          /\ after.extracted[k] = before.extracted[k]]_vars

\* Witness of C26: after the call an event that is watchdog-related by its
\* rule id alone carries the marker and subsystem keys next to the key it
\* had, while an event on the same line that is no target has no new key.
EnrichFrameWitness ==
    /\ epc = "done" /\ Len(en_events) = 2
    /\ en_events[1].rule_hits[1].rule_id = <<"cpu", "WatchDog", "r3">>
    /\ DOMAIN en_events[1].extracted =
          {"suspected_subsystem", "last_progress_code", "last_milestone_line"}
    /\ en_events[1].extracted["suspected_subsystem"] = <<"pcie">>
    /\ en_events[2].category = <<"reset">>
    /\ en_events[2].where.line_range.start = 3
    /\ en_events[2].event_id # en_blocking
    /\ DOMAIN en_events[2].extracted = {"module"}

====
